---- MODULE Spec2Model ----
(***************************************************************************)
(* The STC table container of gfl-stc: Value (src/src/value.rs) and Table  *)
(* (src/src/table.rs).  A Value is a record [k |-> variant, v |-> payload];*)
(* integer payloads are mathematical integers, float payloads are their    *)
(* IEEE-754 bit patterns (to_bits), string payloads are their UTF-8 bytes. *)
(* Readers and writers are io::Cursor<Vec<u8>>: a byte sequence and a      *)
(* 0-based position.  The state holds every byte sequence and the rows of  *)
(* every table run-length encoded (Pack); the operations act on the        *)
(* sequences themselves (Unpack).                                          *)
(***************************************************************************)
EXTENDS Integers, Sequences, FiniteSets, TLC

VARIABLES
    table,      \* the Table being built: [id |-> u16, rows |-> Seq(Row)], packed
    res,        \* result of the last add_row call ("none" before any call)
    calls,      \* number of add_row calls made on the table
    file,       \* bytes of the writer's buffer / of the stream handed to the reader
    ser,        \* result of Table::serialize of `table` into `file`
    tampers,    \* number of bytes of `file` overwritten since it was produced
    de,         \* result of Table::deserialize of `file`
    re,         \* result and buffer of Table::serialize of de.table
    de2,        \* result of Table::deserialize of re.buf
    val,        \* a Value handed to Value::serialize
    vbuf,       \* what Value::serialize wrote for val
    vread,      \* result of Value::read on vbuf
    tag,        \* the type tag handed to that Value::read
    named,      \* result of NamedTable::from_definition on `table`
    call,       \* the accessor call made last, with its arguments
    out,        \* what that call returned
    contents,   \* text of a definitions file
    defs,       \* result of definitions::parse on `contents`
    records,    \* the records of a .csv file
    written,    \* the flags of the Table::to_csv call that wrote `records`
    csv         \* result of Table::from_csv on `records`

\* the variables of the accessors and those of the definitions file
access == <<named, call, out>>
sheet == <<records, written, csv>>
text == <<contents, defs, sheet>>

vars == <<table, res, calls, file, ser, tampers, de, re, de2, val, vbuf, vread, tag,
          access, text>>

----------------------------------------------------------------------------
(* Program constants *)

U8_MAX == 255
U16_MAX == 65535
LBS_MODULUS == 65536
LBS_PLACEHOLDER == 2
JUMP_STRIDE == 100
JUMP_ENTRY_SIZE == 8
HEADER_SIZE == 6
JUMP_TABLE_BASE == 7
LBS_OFFSET == 2
LBS_SKIP == 4

(* Bounds of the model *)

MaxCalls == 2
MaxTampers == 1
MaxSerializeRows == 128
MaxLines == 3
MaxRecords == 3

----------------------------------------------------------------------------
(* Little-endian integers (byteorder::LittleEndian) *)

\* n copies of x, as Vec
Repeat(x, n) == [i \in 1..n |-> x] \o <<>>

RECURSIVE ToLE(_, _)
\* the n low bytes of x in two's complement, least significant first
ToLE(x, n) == IF n = 0 THEN <<>> ELSE <<x % 256>> \o ToLE(x \div 256, n - 1)

RECURSIVE UnsignedLE(_)
UnsignedLE(b) == IF b = <<>> THEN 0 ELSE Head(b) + 256 * UnsignedLE(Tail(b))

RECURSIVE SignedLE(_)
SignedLE(b) ==
    IF Len(b) = 1
    THEN (IF b[1] >= 128 THEN b[1] - 256 ELSE b[1])
    ELSE Head(b) + 256 * SignedLE(Tail(b))

----------------------------------------------------------------------------
(* Value *)

Val(k, v) == [k |-> k, v |-> v]

as_i32(value) == IF value.k = "I32" THEN [some |-> TRUE, v |-> value.v]
                 ELSE [some |-> FALSE, v |-> 0]

\* type_as_u8 with the tags of I16 and U16 exchanged
type_as_u8_swapped(value) ==
    CASE value.k = "I8" -> 1  [] value.k = "U8" -> 2  [] value.k = "I16" -> 4
      [] value.k = "U16" -> 3 [] value.k = "I32" -> 5 [] value.k = "U32" -> 6
      [] value.k = "I64" -> 7 [] value.k = "U64" -> 8 [] value.k = "F32" -> 9
      [] value.k = "F64" -> 10 [] value.k = "String" -> 11

type_as_u8(value) ==
    CASE value.k = "I8" -> 1  [] value.k = "U8" -> 2  [] value.k = "I16" -> 3
      [] value.k = "U16" -> 4 [] value.k = "I32" -> 5 [] value.k = "U32" -> 6
      [] value.k = "I64" -> 7 [] value.k = "U64" -> 8 [] value.k = "F32" -> 9
      [] value.k = "F64" -> 10 [] value.k = "String" -> 11

\* bytes of the payload of a numeric variant
Width(k) ==
    CASE k \in {"I8", "U8"} -> 1
      [] k \in {"I16", "U16"} -> 2
      [] k \in {"I32", "U32", "F32"} -> 4
      [] k \in {"I64", "U64", "F64"} -> 8

IsSigned(k) == k \in {"I8", "I16", "I32", "I64"}

\* str::is_ascii
is_ascii(s) == \A i \in 1..Len(s) : s[i] <= 127

\* Value::serialize that writes the length of a string as len as u16
Value_serialize_wrapping(value) ==
    IF value.k = "String"
    THEN [err |-> "Ok",
          bytes |-> <<IF is_ascii(value.v) THEN 1 ELSE 0>>
                        \o ToLE(Len(value.v) % 65536, 2) \o value.v]
    ELSE [err |-> "Ok", bytes |-> ToLE(value.v, Width(value.k))]

\* Value::serialize: what it appends to the writer, and its result
Value_serialize(value) ==
    IF value.k = "String"
    THEN LET flag == IF is_ascii(value.v) THEN 1 ELSE 0 IN
         IF Len(value.v) > U16_MAX
         THEN [err |-> "StringTooBig", bytes |-> <<flag>>]
         ELSE [err |-> "Ok",
               bytes |-> <<flag>> \o ToLE(Len(value.v), 2) \o value.v]
    ELSE [err |-> "Ok", bytes |-> ToLE(value.v, Width(value.k))]

----------------------------------------------------------------------------
(* String::from_utf8_lossy (core::str::lossy::Utf8Chunks) *)

REPLACEMENT == <<239, 191, 189>>

IsCont(b) == b >= 128 /\ b <= 191

\* core::str::utf8_char_width
utf8_char_width(b) ==
    IF b <= 127 THEN 1
    ELSE IF b >= 194 /\ b <= 223 THEN 2
    ELSE IF b >= 224 /\ b <= 239 THEN 3
    ELSE IF b >= 240 /\ b <= 244 THEN 4
    ELSE 0

\* the second byte a lead byte admits
SecondOk(lead, b) ==
    CASE lead = 224 -> b >= 160 /\ b <= 191
      [] lead = 237 -> b >= 128 /\ b <= 159
      [] lead = 240 -> b >= 144 /\ b <= 191
      [] lead = 244 -> b >= 128 /\ b <= 143
      [] OTHER -> IsCont(b)

\* number of bytes Utf8Chunks inspects for the sequence starting at s[i]
PrefixLen(s, i) ==
    LET n == Len(s)
        w == utf8_char_width(s[i])
        ok2 == i + 1 <= n /\ SecondOk(s[i], s[i + 1])
        ok3 == ok2 /\ i + 2 <= n /\ IsCont(s[i + 2])
        ok4 == ok3 /\ i + 3 <= n /\ IsCont(s[i + 3])
    IN  IF w <= 1 THEN 1
        ELSE IF ~ok2 THEN 1
        ELSE IF w = 2 THEN 2
        ELSE IF ~ok3 THEN 2
        ELSE IF w = 3 THEN 3
        ELSE IF ~ok4 THEN 3
        ELSE 4

Complete(s, i) == utf8_char_width(s[i]) > 0 /\ PrefixLen(s, i) = utf8_char_width(s[i])

\* s[i] starts an invalid sequence, when decoding resumed at p
Bad(s, i, p) ==
    IF IsCont(s[i])
    THEN ~(\E j \in (IF i - 3 > p THEN i - 3 ELSE p)..(i - 1) :
             ~IsCont(s[j]) /\ Complete(s, j) /\ j + utf8_char_width(s[j]) > i)
    ELSE ~Complete(s, i)

Min(S) == CHOOSE i \in S : \A j \in S : i <= j

RECURSIVE LossyFrom(_, _)
\* the invalid sequence at q becomes U+FFFD, decoding resumes after it
LossyAfter(s, p, q) ==
    SubSeq(s, p, q - 1) \o REPLACEMENT \o LossyFrom(s, q + PrefixLen(s, q))

\* bads: where the invalid sequences start, from p on
LossyChunk(s, p, bads) ==
    IF bads = {} THEN SubSeq(s, p, Len(s)) ELSE LossyAfter(s, p, Min(bads))

LossyFrom(s, p) == LossyChunk(s, p, {i \in p..Len(s) : Bad(s, i, p)})

from_utf8_lossy(s) == LossyFrom(s, 1)

----------------------------------------------------------------------------
(* Readers: a byte sequence buf and a 0-based position pos *)

\* read_exact of n bytes: TRUE when the bytes are there
CanRead(buf, pos, n) == pos + n <= Len(buf)

Bytes(buf, pos, n) == SubSeq(buf, pos + 1, pos + n)

\* the variant Value::read builds for a type tag
KindOfTag(t) ==
    CASE t = 1 -> "I8"  [] t = 2 -> "U8"  [] t = 3 -> "I16" [] t = 4 -> "U16"
      [] t = 5 -> "I32" [] t = 6 -> "U32" [] t = 7 -> "I64" [] t = 8 -> "U64"
      [] t = 9 -> "F32" [] t = 10 -> "F64" [] t = 11 -> "String"

NoValue == Val("I8", 0)

\* a failed read; read_exact leaves a Cursor that ran out of bytes at the end
\* of its buffer
ReadFailed(e, pos) == [err |-> e, val |-> NoValue, pos |-> pos]

\* the bytes of a string of len bytes, the reader at pos
ReadString(buf, pos, len) ==
    IF ~CanRead(buf, pos, len) THEN ReadFailed("Io:UnexpectedEof", Len(buf))
    ELSE [err |-> "Ok",
          val |-> Val("String", from_utf8_lossy(Bytes(buf, pos, len))),
          pos |-> pos + len]

\* a numeric variant k, the reader at pos
ReadNumber(k, buf, pos) ==
    IF ~CanRead(buf, pos, Width(k)) THEN ReadFailed("Io:UnexpectedEof", Len(buf))
    ELSE [err |-> "Ok",
          val |-> Val(k, IF IsSigned(k) THEN SignedLE(Bytes(buf, pos, Width(k)))
                         ELSE UnsignedLE(Bytes(buf, pos, Width(k)))),
          pos |-> pos + Width(k)]

\* Value::read taking every tag above 11 for a string
Value_read_above_as_string(field_type, buf, pos) ==
    IF field_type < 1 THEN ReadFailed("Io:InvalidData", pos)
    ELSE IF field_type >= 11
    THEN IF ~CanRead(buf, pos, 1) THEN ReadFailed("Io:UnexpectedEof", Len(buf))
         ELSE IF ~CanRead(buf, pos + 1, 2) THEN ReadFailed("Io:UnexpectedEof", Len(buf))
         ELSE ReadString(buf, pos + 3, UnsignedLE(Bytes(buf, pos + 1, 2)))
    ELSE ReadNumber(KindOfTag(field_type), buf, pos)

\* Value::read(field_type, reader) with the reader at pos
Value_read(field_type, buf, pos) ==
    IF field_type \notin 1..11 THEN ReadFailed("Io:InvalidData", pos)
    ELSE IF field_type = 11
    THEN IF ~CanRead(buf, pos, 1) THEN ReadFailed("Io:UnexpectedEof", Len(buf))
         ELSE IF ~CanRead(buf, pos + 1, 2) THEN ReadFailed("Io:UnexpectedEof", Len(buf))
         ELSE ReadString(buf, pos + 3, UnsignedLE(Bytes(buf, pos + 1, 2)))
    ELSE ReadNumber(KindOfTag(field_type), buf, pos)

----------------------------------------------------------------------------
(* Table *)

\* Table::new
new(id) == [id |-> id, rows |-> <<>>]

\* add_row whose row limit is checked with > in place of >=
add_row_above_limit(t, row) ==
    IF Len(t.rows) > U16_MAX
    THEN [err |-> "TooManyRows", table |-> t]
    ELSE IF Len(row) > U8_MAX
    THEN [err |-> "TooManyColumns", table |-> t]
    ELSE IF ~(Len(row) > 0 /\ row[1].k = "I32")
    THEN [err |-> "InvalidRowID", table |-> t]
    ELSE IF Len(t.rows) > 0 /\ Len(t.rows[1]) # Len(row)
    THEN [err |-> "InconsistentRowLength", table |-> t]
    ELSE [err |-> "Ok", table |-> [t EXCEPT !.rows = Append(@, row)]]

\* add_row without the comparison with the first row's length
add_row_any_length(t, row) ==
    IF Len(t.rows) >= U16_MAX
    THEN [err |-> "TooManyRows", table |-> t]
    ELSE IF Len(row) > U8_MAX
    THEN [err |-> "TooManyColumns", table |-> t]
    ELSE IF ~(Len(row) > 0 /\ row[1].k = "I32")
    THEN [err |-> "InvalidRowID", table |-> t]
    ELSE [err |-> "Ok", table |-> [t EXCEPT !.rows = Append(@, row)]]

\* add_row that puts an accepted row before the rows held
add_row_at_front(t, row) ==
    IF Len(t.rows) >= U16_MAX
    THEN [err |-> "TooManyRows", table |-> t]
    ELSE IF Len(row) > U8_MAX
    THEN [err |-> "TooManyColumns", table |-> t]
    ELSE IF ~(Len(row) > 0 /\ row[1].k = "I32")
    THEN [err |-> "InvalidRowID", table |-> t]
    ELSE IF Len(t.rows) > 0 /\ Len(t.rows[1]) # Len(row)
    THEN [err |-> "InconsistentRowLength", table |-> t]
    ELSE [err |-> "Ok", table |-> [t EXCEPT !.rows = <<row>> \o @]]

\* Table::add_row: its result and the table after the call
add_row(t, row) ==
    IF Len(t.rows) >= U16_MAX
    THEN [err |-> "TooManyRows", table |-> t]
    ELSE IF Len(row) > U8_MAX
    THEN [err |-> "TooManyColumns", table |-> t]
    ELSE IF ~(Len(row) > 0 /\ row[1].k = "I32")
    THEN [err |-> "InvalidRowID", table |-> t]
    ELSE IF Len(t.rows) > 0 /\ Len(t.rows[1]) # Len(row)
    THEN [err |-> "InconsistentRowLength", table |-> t]
    ELSE [err |-> "Ok", table |-> [t EXCEPT !.rows = Append(@, row)]]

\* u64 -> u32 try_into succeeds
FitsU32(pos) == pos \div LBS_MODULUS <= U16_MAX

\* seek(Start(pos)) followed by a write of bytes inside the buffer
Overwrite(buf, pos, bytes) ==
    SubSeq(buf, 1, pos) \o bytes \o SubSeq(buf, pos + Len(bytes) + 1, Len(buf))

NoBytes == [err |-> "Ok", bytes |-> <<>>, jump |-> <<>>]

WriteFailed(e) == [err |-> e, bytes |-> <<>>, jump |-> <<>>]

\* what two consecutive stretches of the loop wrote
WriteJoin(l, r) ==
    [err |-> r.err, bytes |-> l.bytes \o r.bytes, jump |-> l.jump \o r.jump]

\* what Value::serialize did, with the bookmarks taken before it
Written(w, jump) == [err |-> w.err, bytes |-> w.bytes, jump |-> jump]

\* one column of the inner loop of serialize, the writer at pos; mark: the
\* column is the first one of a row whose index is a multiple of 100
WriteCell(column, mark, pos) ==
    IF mark /\ ~as_i32(column).some THEN WriteFailed("InvalidRowID")
    ELSE IF mark /\ ~FitsU32(pos) THEN WriteFailed("BookmarkOutOfBounds")
    ELSE Written(Value_serialize(column),
                 IF mark THEN << <<as_i32(column).v, pos>> >> ELSE <<>>)

\* the inner loop of serialize over columns lo..hi (1-based) of row row_i
\* (0-based), the writer being at pos: what is written, the bookmarks taken
RECURSIVE WriteCells(_, _, _, _, _)
CellsAfter(l, row, row_i, pos, lo, hi) ==
    IF l.err # "Ok" THEN l
    ELSE WriteJoin(l, WriteCells(row, row_i, pos + Len(l.bytes), lo, hi))

WriteCells(row, row_i, pos, lo, hi) ==
    IF lo > hi THEN NoBytes
    ELSE IF lo = hi
    THEN WriteCell(row[lo], row_i % JUMP_STRIDE = 0 /\ lo = 1, pos)
    ELSE CellsAfter(WriteCells(row, row_i, pos, lo, (lo + hi) \div 2),
                    row, row_i, pos, ((lo + hi) \div 2) + 1, hi)

\* the outer loop of serialize over rows lo..hi (1-based)
RECURSIVE WriteRows(_, _, _, _)
RowsAfter(l, rows, pos, lo, hi) ==
    IF l.err # "Ok" THEN l
    ELSE WriteJoin(l, WriteRows(rows, pos + Len(l.bytes), lo, hi))

WriteRows(rows, pos, lo, hi) ==
    IF lo > hi THEN NoBytes
    ELSE IF lo = hi
    THEN WriteCells(rows[lo], lo - 1, pos, 1, Len(rows[lo]))
    ELSE RowsAfter(WriteRows(rows, pos, lo, (lo + hi) \div 2),
                   rows, pos, ((lo + hi) \div 2) + 1, hi)

\* the jump table with each entry's offset written before its id
JumpBytes_offset_first(jump) ==
    [i \in 1..(JUMP_ENTRY_SIZE * Len(jump)) |->
        IF (i - 1) % JUMP_ENTRY_SIZE < 4
        THEN ToLE(jump[((i - 1) \div JUMP_ENTRY_SIZE) + 1][2], 4)[((i - 1) % JUMP_ENTRY_SIZE) + 1]
        ELSE ToLE(jump[((i - 1) \div JUMP_ENTRY_SIZE) + 1][1], 4)[((i - 1) % JUMP_ENTRY_SIZE) - 3]]

\* the jump table as written: per entry the id (i32) and the offset (u32)
JumpBytes(jump) ==
    [i \in 1..(JUMP_ENTRY_SIZE * Len(jump)) |->
        IF (i - 1) % JUMP_ENTRY_SIZE < 4
        THEN ToLE(jump[((i - 1) \div JUMP_ENTRY_SIZE) + 1][1], 4)[((i - 1) % JUMP_ENTRY_SIZE) + 1]
        ELSE ToLE(jump[((i - 1) \div JUMP_ENTRY_SIZE) + 1][2], 4)[((i - 1) % JUMP_ENTRY_SIZE) - 3]]

jump_table_size(n) == 1 + (n \div JUMP_STRIDE)

\* the header with 0 in place of the placeholder
Header_lbs_zero(t) == ToLE(t.id, 2) \o ToLE(0, 2)

\* table id and the placeholder of the last block size
Header(t) == ToLE(t.id, 2) \o ToLE(LBS_PLACEHOLDER, 2)

\* what precedes the rows: header, row count, column count, column types and
\* the zero-filled jump table
Preamble(t) ==
    Header(t) \o ToLE(Len(t.rows), 2) \o <<Len(t.rows[1])>>
      \o [c \in 1..Len(t.rows[1]) |-> type_as_u8(t.rows[1][c])]
      \o Repeat(0, JUMP_ENTRY_SIZE * jump_table_size(Len(t.rows)))

\* the last block size taken as the whole length of the stream
PatchLbs_unskipped(buf) ==
    Overwrite(buf, LBS_OFFSET, ToLE(Len(buf) % LBS_MODULUS, 2))

\* the last block size written at offset 2 of a stream of Len(buf) bytes
PatchLbs(buf) ==
    Overwrite(buf, LBS_OFFSET, ToLE((Len(buf) - LBS_SKIP) % LBS_MODULUS, 2))

\* the assertion on the bookmarks taken, then the jump table written in place
WriteJumpTable(patched, jump, n, columns_n) ==
    IF Len(jump) # jump_table_size(n) THEN [err |-> "panic", buf |-> patched]
    ELSE [err |-> "Ok",
          buf |-> Overwrite(patched, JUMP_TABLE_BASE + columns_n, JumpBytes(jump))]

\* serialize once the rows are written
AfterRows(pre, body, n, columns_n) ==
    IF body.err # "Ok" THEN [err |-> body.err, buf |-> pre \o body.bytes]
    ELSE WriteJumpTable(PatchLbs(pre \o body.bytes), body.jump, n, columns_n)

\* serialize once the preamble pre is written
AfterPreamble(t, pre) ==
    AfterRows(pre, WriteRows(t.rows, Len(pre), 1, Len(t.rows)),
              Len(t.rows), Len(t.rows[1]))

\* Table::serialize into an empty Cursor: its result ("panic" when the
\* assertion on the jump table fails) and the buffer it leaves
serialize(t) ==
    IF Len(t.rows) > U16_MAX THEN [err |-> "TooManyRows", buf |-> Header(t)]
    ELSE IF Len(t.rows) = 0
    THEN [err |-> "Ok", buf |-> Header(t) \o ToLE(0, 2)]
    ELSE IF Len(t.rows[1]) > U8_MAX
    THEN [err |-> "TooManyColumns", buf |-> Header(t) \o ToLE(Len(t.rows), 2)]
    ELSE AfterPreamble(t, Preamble(t))

NoCells == [err |-> "Ok", vals |-> <<>>, pos |-> 0]

\* one cell read: the row so far
OneCell(v) ==
    [err |-> v.err, vals |-> IF v.err = "Ok" THEN <<v.val>> ELSE <<>>, pos |-> v.pos]

CellsJoin(l, r) == [err |-> r.err, vals |-> l.vals \o r.vals, pos |-> r.pos]

\* the inner loop of deserialize over column types lo..hi, the reader at pos
RECURSIVE ReadCells(_, _, _, _, _)
ReadCellsAfter(l, buf, column_types, lo, hi) ==
    IF l.err # "Ok" THEN l
    ELSE CellsJoin(l, ReadCells(buf, l.pos, column_types, lo, hi))

ReadCells(buf, pos, column_types, lo, hi) ==
    IF lo > hi THEN [NoCells EXCEPT !.pos = pos]
    ELSE IF lo = hi THEN OneCell(Value_read(column_types[lo], buf, pos))
    ELSE ReadCellsAfter(ReadCells(buf, pos, column_types, lo, (lo + hi) \div 2),
                        buf, column_types, ((lo + hi) \div 2) + 1, hi)

\* one row read: the rows so far
OneRow(c) ==
    [err |-> c.err, rows |-> IF c.err = "Ok" THEN <<c.vals>> ELSE <<>>, pos |-> c.pos]

RowsJoin(l, r) == [err |-> r.err, rows |-> l.rows \o r.rows, pos |-> r.pos]

\* the outer loop of deserialize over rows lo..hi
RECURSIVE ReadRows(_, _, _, _, _)
ReadRowsAfter(l, buf, column_types, lo, hi) ==
    IF l.err # "Ok" THEN l
    ELSE RowsJoin(l, ReadRows(buf, l.pos, column_types, lo, hi))

ReadRows(buf, pos, column_types, lo, hi) ==
    IF lo > hi THEN [err |-> "Ok", rows |-> <<>>, pos |-> pos]
    ELSE IF lo = hi
    THEN OneRow(ReadCells(buf, pos, column_types, 1, Len(column_types)))
    ELSE ReadRowsAfter(ReadRows(buf, pos, column_types, lo, (lo + hi) \div 2),
                       buf, column_types, ((lo + hi) \div 2) + 1, hi)

Failed(e) == [err |-> e, table |-> new(0)]

\* column types, first jump-table entry, seek to its offset, the rows
ReadBody(buf, rows, columns) ==
    IF ~CanRead(buf, JUMP_TABLE_BASE, columns + JUMP_ENTRY_SIZE)
    THEN [err |-> "Io:UnexpectedEof", rows |-> <<>>, pos |-> 0]
    ELSE ReadRows(buf, UnsignedLE(Bytes(buf, JUMP_TABLE_BASE + columns + 4, 4)),
                  Bytes(buf, JUMP_TABLE_BASE, columns), 1, rows)

\* the last block size compared with the reader's final position
CheckLbs(table_id, last_block_size, body, overflow_checks) ==
    IF body.err # "Ok" THEN Failed(body.err)
    ELSE IF body.pos < LBS_SKIP /\ overflow_checks THEN Failed("panic")
    ELSE IF last_block_size # (body.pos - LBS_SKIP) % LBS_MODULUS
    THEN Failed("LastBlockSizeMismatch")
    ELSE [err |-> "Ok", table |-> [id |-> table_id, rows |-> body.rows]]

\* Table::deserialize of a Cursor over buf.  overflow_checks: the build
\* panics on integer overflow (debug profile) instead of wrapping.
deserialize(buf, overflow_checks) ==
    IF ~CanRead(buf, 0, HEADER_SIZE) THEN Failed("Io:UnexpectedEof")
    ELSE IF UnsignedLE(Bytes(buf, 4, 2)) = 0
    THEN [err |-> "Ok", table |-> new(UnsignedLE(Bytes(buf, 0, 2)))]
    ELSE IF ~CanRead(buf, HEADER_SIZE, 1) THEN Failed("Io:UnexpectedEof")
    ELSE CheckLbs(UnsignedLE(Bytes(buf, 0, 2)), UnsignedLE(Bytes(buf, 2, 2)),
                  ReadBody(buf, UnsignedLE(Bytes(buf, 4, 2)), buf[HEADER_SIZE + 1]),
                  overflow_checks)

----------------------------------------------------------------------------
(* Conversions of the accessors: &Value -> T, Display, FromStr, str::split *)

Err(e) == [err |-> e, v |-> <<>>]
None == [some |-> FALSE, v |-> 0]
Some(v) == [some |-> TRUE, v |-> v]

\* the variant whose payload is of the Rust type T
VariantOf(T) ==
    CASE T = "i8" -> "I8" [] T = "u8" -> "U8" [] T = "i16" -> "I16" [] T = "u16" -> "U16"
      [] T = "i32" -> "I32" [] T = "u32" -> "U32" [] T = "i64" -> "I64" [] T = "u64" -> "U64"
      [] T = "f32" -> "F32" [] T = "f64" -> "F64" [] T = "String" -> "String"

RECURSIVE Digits(_)
\* the decimal digits of -n, for n <= 0
Digits(n) ==
    IF n > -10 THEN <<48 - n>>
    ELSE Append(Digits((n + ((10 - (n % 10)) % 10)) \div 10), 48 + ((10 - (n % 10)) % 10))

\* Display of an integer
int_to_string(x) == IF x < 0 THEN <<45>> \o Digits(x) ELSE Digits(-x)

\* Display of the f32 of the given bits: infinity, NaN, zero and the whole
\* numbers below 2^24 (the positive ones: the bits are below 2^31)
f32_to_string(bits) ==
    CASE bits \div 8388608 = 255 /\ bits % 8388608 = 0 -> <<105, 110, 102>>
      [] bits \div 8388608 = 255 /\ bits % 8388608 # 0 -> <<78, 97, 78>>
      [] bits = 0 -> <<48>>
      [] bits \div 8388608 \in 127..150 /\ bits % (2 ^ (150 - (bits \div 8388608))) = 0 ->
            int_to_string((8388608 + (bits % 8388608)) \div (2 ^ (150 - (bits \div 8388608))))

\* Display of the f64 of the given bits: zero (every other f64 of bits below
\* 2^31 is subnormal)
f64_to_string(bits) == CASE bits = 0 -> <<48>>

\* impl ToString for Value
to_string(value) ==
    CASE value.k = "String" -> value.v
      [] value.k = "F32" -> f32_to_string(value.v)
      [] value.k = "F64" -> f64_to_string(value.v)
      [] OTHER -> int_to_string(value.v)

\* try_from that hands out the payload of every numeric variant
try_from_any_number(T, value) ==
    IF T = "String" THEN [err |-> "Ok", v |-> to_string(value)]
    ELSE IF value.k # "String" THEN [err |-> "Ok", v |-> value.v]
    ELSE Err("InvalidType")

\* T::try_from(&Value): as_T for a numeric T, to_string for String
try_from(T, value) ==
    IF T = "String" THEN [err |-> "Ok", v |-> to_string(value)]
    ELSE IF value.k = VariantOf(T) THEN [err |-> "Ok", v |-> value.v]
    ELSE Err("InvalidType")

\* the range of the integer type T
Lowest(T) ==
    CASE T = "i8" -> -128 [] T = "i16" -> -32768 [] T = "i32" -> (-2147483647) - 1
      [] T \in {"u8", "u16"} -> 0
Highest(T) ==
    CASE T = "i8" -> 127 [] T = "i16" -> 32767 [] T = "i32" -> 2147483647
      [] T = "u8" -> 255 [] T = "u16" -> 65535

RECURSIVE ParseDigits(_, _, _, _)
\* the digits s[i..] appended to those of -n, n <= 0; an overflow when the
\* number would fall below lim
ParseDigits(s, i, n, lim) ==
    IF i > Len(s) THEN Some(n)
    ELSE IF s[i] \notin 48..57 THEN None
    ELSE IF n < (lim + (s[i] - 48) + 9) \div 10 THEN None
    ELSE ParseDigits(s, i + 1, n * 10 - (s[i] - 48), lim)

Negated(o) == IF o.some THEN Some(-o.v) ELSE None

\* the digits that follow a sign, or all of s
ParseSigned(T, s, start, positive) ==
    IF start > Len(s) THEN None
    ELSE IF positive THEN Negated(ParseDigits(s, start, 0, -Highest(T)))
    ELSE ParseDigits(s, start, 0, Lowest(T))

\* <T as FromStr>::from_str(s).ok() for String and the integer types of at
\* most 32 bits
from_str(T, s) ==
    IF T = "String" THEN Some(s)
    ELSE IF s = <<>> THEN None
    ELSE ParseSigned(T, s, IF s[1] = 43 \/ (s[1] = 45 /\ Lowest(T) < 0) THEN 2 ELSE 1,
                     ~(s[1] = 45 /\ Lowest(T) < 0))

\* where the first occurrence of sep in s starts, 0 when there is none
FirstMatch(s, sep) ==
    IF \E i \in 1..(Len(s) - Len(sep) + 1) : SubSeq(s, i, i + Len(sep) - 1) = sep
    THEN Min({i \in 1..(Len(s) - Len(sep) + 1) : SubSeq(s, i, i + Len(sep) - 1) = sep})
    ELSE 0

RECURSIVE split(_, _)
\* a split that yields no empty piece before a separator
SplitAt_no_empty(s, sep, hit) ==
    IF hit = 0 THEN <<s>>
    ELSE IF hit = 1 THEN split(SubSeq(s, hit + Len(sep), Len(s)), sep)
    ELSE <<SubSeq(s, 1, hit - 1)>> \o split(SubSeq(s, hit + Len(sep), Len(s)), sep)

SplitAt(s, sep, hit) ==
    IF hit = 0 THEN <<s>>
    ELSE <<SubSeq(s, 1, hit - 1)>> \o split(SubSeq(s, hit + Len(sep), Len(s)), sep)

\* str::split(sep) for a separator that is not empty
split(s, sep) == SplitAt(s, sep, FirstMatch(s, sep))

----------------------------------------------------------------------------
(* Positional accessors of Table *)

\* map_err(|_| Error::ValueConversionFailed)
Converted(r) == IF r.err # "Ok" THEN Err("ValueConversionFailed") ELSE r

\* Table::value::<T>(row, column)
Table_value(t, T, row, column) ==
    IF row >= Len(t.rows) THEN Err("RowNotFound")
    ELSE IF column >= Len(t.rows[row + 1]) THEN Err("ColumnNotFound")
    ELSE Converted(try_from(T, t.rows[row + 1][column + 1]))

\* collect::<Result<Vec<T>, _>>()
CollectVector(parsed) ==
    IF \E i \in 1..Len(parsed) : ~parsed[i].some THEN Err("ValueConversionFailed")
    ELSE [err |-> "Ok", v |-> [i \in 1..Len(parsed) |-> parsed[i].v] \o <<>>]

ParseEach(T, pieces) == [i \in 1..Len(pieces) |-> from_str(T, pieces[i])]

\* Table::vector::<T>(row, column, separator)
Table_vector(t, T, row, column, separator) ==
    IF row >= Len(t.rows) THEN Err("RowNotFound")
    ELSE IF column >= Len(t.rows[row + 1]) THEN Err("ColumnNotFound")
    ELSE IF t.rows[row + 1][column + 1].k # "String" THEN Err("InvalidColumnType")
    ELSE CollectVector(ParseEach(T, split(t.rows[row + 1][column + 1].v, separator)))

\* the closure of map on the parts of one piece: k from the first part, v
\* from the second, k.zip(v)
Zip(K, V, parts) ==
    [k |-> from_str(K, parts[1]),
     v |-> IF Len(parts) >= 2 THEN from_str(V, parts[2]) ELSE None]

ZipEach(K, V, pieces, kv_separator) ==
    [i \in 1..Len(pieces) |-> Zip(K, V, split(pieces[i], kv_separator))]

\* collect::<Option<HashMap<K, V>>>(): a later pair replaces an earlier one
\* of the same key
CollectMap(pairs) ==
    IF \E i \in 1..Len(pairs) : ~pairs[i].k.some \/ ~pairs[i].v.some
    THEN Err("ValueConversionFailed")
    ELSE [err |-> "Ok",
          v |-> [key \in {pairs[i].k.v : i \in 1..Len(pairs)} |->
                    pairs[CHOOSE i \in 1..Len(pairs) :
                            /\ pairs[i].k.v = key
                            /\ \A j \in (i + 1)..Len(pairs) : pairs[j].k.v # key].v.v]]

\* Table::map::<K, V>(row, column, pair_separator, kv_separator)
Table_map(t, K, V, row, column, pair_separator, kv_separator) ==
    IF row >= Len(t.rows) THEN Err("RowNotFound")
    ELSE IF column >= Len(t.rows[row + 1]) THEN Err("ColumnNotFound")
    ELSE IF t.rows[row + 1][column + 1].k # "String" THEN Err("InvalidColumnType")
    ELSE CollectMap(ZipEach(K, V, split(t.rows[row + 1][column + 1].v, pair_separator),
                            kv_separator))

----------------------------------------------------------------------------
(* NamedTable *)

\* collect::<HashMap<String, usize>>() of the enumerated names: a name that
\* occurs again replaces its earlier index
column_to_index(columns) ==
    [n \in {columns[i] : i \in 1..Len(columns)} |->
        (CHOOSE i \in 1..Len(columns) :
            columns[i] = n /\ \A j \in (i + 1)..Len(columns) : columns[j] # n) - 1]

\* an insert that leaves the index of a key already held as it is
IndexMap_insert_keep(entries, key, index) ==
    IF \E i \in 1..Len(entries) : entries[i].key = key
    THEN entries
    ELSE Append(entries, [key |-> key, index |-> index])

\* IndexMap::insert: the value of a key already held is replaced where the
\* key stands, a new key goes to the end
IndexMap_insert(entries, key, index) ==
    IF \E i \in 1..Len(entries) : entries[i].key = key
    THEN [i \in 1..Len(entries) |->
            IF entries[i].key = key THEN [key |-> key, index |-> index] ELSE entries[i]] \o <<>>
    ELSE Append(entries, [key |-> key, index |-> index])

\* IndexMap::get
IndexMap_get(entries, key) ==
    IF \E i \in 1..Len(entries) : entries[i].key = key
    THEN Some((CHOOSE e \in {entries[i] : i \in 1..Len(entries)} : e.key = key).index)
    ELSE None

\* the first cell taken for the id whatever its variant
RowId_of_any_variant(row) == IF Len(row) = 0 THEN None ELSE Some(row[1].v)

\* row.get(0).map(Value::as_i32).flatten()
RowId(row) == IF Len(row) = 0 THEN None ELSE as_i32(row[1])

RECURSIVE ScanRows(_, _, _)
\* the loop of from_definition from row i on, with the entries so far
ScanRows(rows, i, entries) ==
    IF i > Len(rows) THEN [err |-> "Ok", entries |-> entries]
    ELSE IF ~RowId(rows[i]).some THEN [err |-> "ColumnNotFound", entries |-> <<>>]
    ELSE ScanRows(rows, i + 1, IndexMap_insert(entries, RowId(rows[i]).v, i - 1))

Named(t, def, scan) ==
    [err |-> scan.err,
     name |-> IF scan.err = "Ok" THEN def.name ELSE <<>>,
     table |-> IF scan.err = "Ok" THEN t ELSE new(0),
     id_to_index |-> scan.entries,
     column_to_index |-> IF scan.err = "Ok" THEN column_to_index(def.columns) ELSE <<>>]

\* NamedTable::from_definition(table, def)
from_definition(t, def) == Named(t, def, ScanRows(t.rows, 1, <<>>))

\* NamedTable::row_ids: the keys in the order they stand
row_ids(n) == [i \in 1..Len(n.id_to_index) |-> n.id_to_index[i].key] \o <<>>

\* HashMap::get(column_name)
ColumnIndex(n, column_name) ==
    IF column_name \in DOMAIN n.column_to_index
    THEN Some(n.column_to_index[column_name]) ELSE None

\* value that looks up the column name before the row id
NamedTable_value_column_first(n, T, row_id, column_name) ==
    IF ~ColumnIndex(n, column_name).some THEN Err("ColumnNotFound")
    ELSE IF ~IndexMap_get(n.id_to_index, row_id).some THEN Err("RowNotFound")
    ELSE Table_value(n.table, T, IndexMap_get(n.id_to_index, row_id).v,
                     ColumnIndex(n, column_name).v)

\* NamedTable::value::<T>(row_id, column_name)
NamedTable_value(n, T, row_id, column_name) ==
    IF ~IndexMap_get(n.id_to_index, row_id).some THEN Err("RowNotFound")
    ELSE IF ~ColumnIndex(n, column_name).some THEN Err("ColumnNotFound")
    ELSE Table_value(n.table, T, IndexMap_get(n.id_to_index, row_id).v,
                     ColumnIndex(n, column_name).v)

\* NamedTable::vector::<T>(row_id, column_name, separator)
NamedTable_vector(n, T, row_id, column_name, separator) ==
    IF ~IndexMap_get(n.id_to_index, row_id).some THEN Err("RowNotFound")
    ELSE IF ~ColumnIndex(n, column_name).some THEN Err("ColumnNotFound")
    ELSE Table_vector(n.table, T, IndexMap_get(n.id_to_index, row_id).v,
                      ColumnIndex(n, column_name).v, separator)

\* array that accepts every result of at least the required length
Measured_at_least(ret, length) ==
    IF ret.err # "Ok" THEN ret
    ELSE IF Len(ret.v) < length THEN Err("MismatchedLength")
    ELSE ret

\* the comparison of array with the required length
Measured(ret, length) ==
    IF ret.err # "Ok" THEN ret
    ELSE IF Len(ret.v) # length THEN Err("MismatchedLength")
    ELSE ret

\* NamedTable::array::<T>(row_id, column_name, separator, length)
NamedTable_array(n, T, row_id, column_name, separator, length) ==
    Measured(NamedTable_vector(n, T, row_id, column_name, separator), length)

\* NamedTable::map::<K, V>(row_id, column_name, pair_separator, kv_separator)
NamedTable_map(n, K, V, row_id, column_name, pair_separator, kv_separator) ==
    IF ~IndexMap_get(n.id_to_index, row_id).some THEN Err("RowNotFound")
    ELSE IF ~ColumnIndex(n, column_name).some THEN Err("ColumnNotFound")
    ELSE Table_map(n.table, K, V, IndexMap_get(n.id_to_index, row_id).v,
                   ColumnIndex(n, column_name).v, pair_separator, kv_separator)

----------------------------------------------------------------------------
(* definitions::parse *)

\* char::is_whitespace for the characters of one byte
is_whitespace(b) == b \in 9..13 \/ b = 32

\* char::is_whitespace for the character of the three bytes a, b, c: U+1680,
\* U+2000..U+200A, U+2028, U+2029, U+202F, U+205F, U+3000
is_whitespace3(a, b, c) ==
    \/ a = 225 /\ b = 154 /\ c = 128
    \/ a = 226 /\ b = 128 /\ c \in (128..138) \cup {168, 169, 175}
    \/ a = 226 /\ b = 129 /\ c = 159
    \/ a = 227 /\ b = 128 /\ c = 128

\* the number of bytes of the white space character s starts with, 0 when
\* it starts with none (of two bytes: U+0085, U+00A0)
WhiteStart(s) ==
    IF s = <<>> THEN 0
    ELSE IF is_whitespace(s[1]) THEN 1
    ELSE IF Len(s) >= 2 /\ s[1] = 194 /\ s[2] \in {133, 160} THEN 2
    ELSE IF Len(s) >= 3 /\ is_whitespace3(s[1], s[2], s[3]) THEN 3
    ELSE 0

\* the number of bytes of the white space character s ends with
WhiteEnd(s) ==
    IF s = <<>> THEN 0
    ELSE IF is_whitespace(s[Len(s)]) THEN 1
    ELSE IF Len(s) >= 2 /\ s[Len(s) - 1] = 194 /\ s[Len(s)] \in {133, 160} THEN 2
    ELSE IF Len(s) >= 3 /\ is_whitespace3(s[Len(s) - 2], s[Len(s) - 1], s[Len(s)]) THEN 3
    ELSE 0

RECURSIVE trim_start(_)
\* str::trim_start
trim_start(s) ==
    IF WhiteStart(s) > 0 THEN trim_start(SubSeq(s, WhiteStart(s) + 1, Len(s))) ELSE s

RECURSIVE trim_end(_)
\* str::trim_end
trim_end(s) ==
    IF WhiteEnd(s) > 0 THEN trim_end(SubSeq(s, 1, Len(s) - WhiteEnd(s))) ELSE s

\* str::trim
trim(s) == trim_end(trim_start(s))

\* a line without the "\r" that preceded its "\n"
WithoutCr(l) == IF l # <<>> /\ l[Len(l)] = 13 THEN SubSeq(l, 1, Len(l) - 1) ELSE l

\* the pieces between "\n", an empty last one left out
Terminated(pieces) ==
    IF pieces[Len(pieces)] = <<>> THEN SubSeq(pieces, 1, Len(pieces) - 1) ELSE pieces

\* the lines of the pieces between "\n": a piece that a "\n" followed loses
\* the "\r" at its end, a last piece that none followed is kept as it is
LinesOf(pieces) ==
    [i \in 1..Len(Terminated(pieces)) |->
        IF i < Len(pieces) THEN WithoutCr(pieces[i]) ELSE pieces[i]] \o <<>>

\* str::lines
lines(s) == LinesOf(split(s, <<10>>))

\* str::starts_with
starts_with(s, prefix) == Len(s) >= Len(prefix) /\ SubSeq(s, 1, Len(prefix)) = prefix

LineFailed(e) == [err |-> e, id |-> 0, def |-> <<>>]

\* the names and the types of a line whose four fields are there
Listed(id, name, columns, types) ==
    IF Len(columns) # Len(types) THEN LineFailed("InconsistentNamesAndTypesLength")
    ELSE [err |-> "Ok", id |-> id,
          def |-> [name |-> name, columns |-> columns, types |-> types]]

\* a loop body that looks for the name before it looks at the id
Definition_name_first(fields, id) ==
    IF Len(fields) < 2 THEN LineFailed("NoTableName")
    ELSE IF ~id.some THEN LineFailed("InvalidTableId")
    ELSE IF Len(fields) < 3 THEN LineFailed("NoTableColumnNames")
    ELSE IF Len(fields) < 4 THEN LineFailed("NoTableColumnTypes")
    ELSE Listed(id.v, fields[2], split(fields[3], <<44>>), split(fields[4], <<44>>))

\* the body of the loop of parse for the ';'-fields of a line and its id
\* parsed
Definition(fields, id) ==
    IF ~id.some THEN LineFailed("InvalidTableId")
    ELSE IF Len(fields) < 2 THEN LineFailed("NoTableName")
    ELSE IF Len(fields) < 3 THEN LineFailed("NoTableColumnNames")
    ELSE IF Len(fields) < 4 THEN LineFailed("NoTableColumnTypes")
    ELSE Listed(id.v, fields[2], split(fields[3], <<44>>), split(fields[4], <<44>>))

Fields(fields) == Definition(fields, from_str("u16", fields[1]))

\* an insert that keeps the definition an id already has
HashMap_insert_keep(definitions, id, def) ==
    [k \in (DOMAIN definitions) \cup {id} |->
        IF k \in DOMAIN definitions THEN definitions[k] ELSE def]

\* HashMap::insert
HashMap_insert(definitions, id, def) ==
    [k \in (DOMAIN definitions) \cup {id} |-> IF k = id THEN def ELSE definitions[k]]

RECURSIVE ParseLines(_, _, _)
Inserted(ls, i, definitions, d) ==
    IF d.err # "Ok" THEN [err |-> d.err, map |-> <<>>]
    ELSE ParseLines(ls, i + 1, HashMap_insert(definitions, d.id, d.def))

Trimmed(ls, i, definitions, line) ==
    IF starts_with(line, <<47, 47>>) \/ line = <<>>
    THEN ParseLines(ls, i + 1, definitions)
    ELSE Inserted(ls, i, definitions, Fields(split(line, <<59>>)))

\* the loop of parse from line i on, with the definitions so far
ParseLines(ls, i, definitions) ==
    IF i > Len(ls) THEN [err |-> "Ok", map |-> definitions]
    ELSE Trimmed(ls, i, definitions, trim(ls[i]))

\* definitions::parse(contents)
parse(s) == ParseLines(lines(s), 1, <<>>)

----------------------------------------------------------------------------
(* Table::from_csv and Table::to_csv.  A .csv file is held as the sequence of
   records the csv crate writes to it and reads back from it, each record a
   sequence of fields, each field a string of bytes. *)

\* Value::type_as_string
type_as_string(value) ==
    CASE value.k = "I8" -> <<105, 56>>
      [] value.k = "U8" -> <<117, 56>>
      [] value.k = "I16" -> <<105, 49, 54>>
      [] value.k = "U16" -> <<117, 49, 54>>
      [] value.k = "I32" -> <<105, 51, 50>>
      [] value.k = "U32" -> <<117, 51, 50>>
      [] value.k = "I64" -> <<105, 54, 52>>
      [] value.k = "U64" -> <<117, 54, 52>>
      [] value.k = "F32" -> <<102, 51, 50>>
      [] value.k = "F64" -> <<102, 54, 52>>
      [] value.k = "String" -> <<115, 116, 114, 105, 110, 103>>

\* str::parse for u32, i64 and u64, of a text of at most 9 bytes (no such
\* text is out of the range of these types)
parse_wide(T, s) ==
    CASE s = <<>> -> None
      [] s # <<>> /\ Len(s) <= 9 ->
            IF (IF s[1] = 43 \/ (s[1] = 45 /\ T = "i64") THEN 2 ELSE 1) > Len(s) THEN None
            ELSE IF s[1] = 45 /\ T = "i64" THEN ParseDigits(s, 2, 0, -999999999)
            ELSE Negated(ParseDigits(s, IF s[1] = 43 THEN 2 ELSE 1, 0, -999999999))

RECURSIVE Log2(_)
\* the position of the highest bit of n >= 1
Log2(n) == IF n < 2 THEN 0 ELSE 1 + Log2(n \div 2)

\* the bits of the f32 that is the whole number n < 2^24
f32_of_whole(n) ==
    IF n = 0 THEN 0
    ELSE (127 + Log2(n)) * 8388608 + (n - 2 ^ Log2(n)) * 2 ^ (23 - Log2(n))

\* the bytes a text that parses as a float can hold
FloatBytes ==
    48..57 \cup {43, 45, 46, 69, 101}
           \cup {73, 78, 70, 84, 89, 65, 105, 110, 102, 116, 121, 97}

\* str::parse::<f32>, as the bits of the result: of "NaN", of "inf", of a
\* whole number of at most 7 digits, and of a text that is no float
f32_from_str(s) ==
    CASE s = <<78, 97, 78>> -> Some(2143289344)
      [] s = <<105, 110, 102>> -> Some(2139095040)
      [] s # <<>> /\ Len(s) <= 7 /\ (\A i \in 1..Len(s) : s[i] \in 48..57) ->
            Some(f32_of_whole(-ParseDigits(s, 1, 0, -9999999).v))
      [] s = <<>> \/ (\E i \in 1..Len(s) : s[i] \notin FloatBytes) -> None

\* str::parse::<f64>, as the bits of the result: of "0" and of a text that
\* is no float
f64_from_str(s) ==
    CASE s = <<48>> -> Some(0)
      [] s = <<>> \/ (\E i \in 1..Len(s) : s[i] \notin FloatBytes) -> None

\* .map(Value::K).map_err(|_| Error::ValueConversionFailed)
Cell(k, parsed) ==
    IF parsed.some THEN [err |-> "Ok", v |-> Val(k, parsed.v)]
    ELSE Err("ValueConversionFailed")

\* the match on the type of the column in from_csv
parse_cell(col_type, col) ==
    CASE col_type = <<105, 56>> -> Cell("U8", from_str("u8", col))
      [] col_type = <<117, 56>> -> Cell("U8", from_str("u8", col))
      [] col_type = <<105, 49, 54>> -> Cell("I16", from_str("i16", col))
      [] col_type = <<117, 49, 54>> -> Cell("U16", from_str("u16", col))
      [] col_type = <<105, 51, 50>> -> Cell("I32", from_str("i32", col))
      [] col_type = <<117, 51, 50>> -> Cell("U32", parse_wide("u32", col))
      [] col_type = <<105, 54, 52>> -> Cell("I64", parse_wide("i64", col))
      [] col_type = <<117, 54, 52>> -> Cell("U64", parse_wide("u64", col))
      [] col_type = <<102, 51, 50>> -> Cell("F32", f32_from_str(col))
      [] col_type = <<102, 54, 52>> -> Cell("F64", f64_from_str(col))
      [] col_type = <<115, 116, 114, 105, 110, 103>> -> [err |-> "Ok", v |-> Val("String", col)]
      [] OTHER -> Err("InvalidColumnType")

\* the cell of column i of a record
CellAt(types, record, i) ==
    IF i > Len(types) THEN Err("InconsistentNamesAndTypesLength")
    ELSE parse_cell(types[i], record[i])

\* collect() into Result<Vec<Value>, _>: the first error, or the cells
CollectRow(cells) ==
    IF \A i \in 1..Len(cells) : cells[i].err = "Ok"
    THEN [err |-> "Ok", v |-> [i \in 1..Len(cells) |-> cells[i].v]]
    ELSE Err(cells[Min({i \in 1..Len(cells) : cells[i].err # "Ok"})].err)

ParseRecord(types, record) ==
    CollectRow([i \in 1..Len(record) |-> CellAt(types, record, i)])

RECURSIVE ReadRecords(_, _, _)
\* the loop over reader.records(); the reader refuses a record whose number
\* of fields is not that of the first record of the file
ReadRecords(t, recs, i) ==
    IF i > Len(recs) THEN [err |-> "Ok", table |-> t]
    ELSE IF Len(recs[i]) # Len(recs[1]) THEN [err |-> "Csv", table |-> new(0)]
    ELSE IF ParseRecord(recs[1], recs[i]).err # "Ok"
    THEN [err |-> ParseRecord(recs[1], recs[i]).err, table |-> new(0)]
    ELSE IF add_row(t, ParseRecord(recs[1], recs[i]).v).err # "Ok"
    THEN [err |-> add_row(t, ParseRecord(recs[1], recs[i]).v).err, table |-> new(0)]
    ELSE ReadRecords(add_row(t, ParseRecord(recs[1], recs[i]).v).table, recs, i + 1)

\* Table::from_csv(id, reader), the reader holding the records recs
from_csv(id, recs) == ReadRecords(new(id), recs, 2)

\* format!("col-{}", i)
ColumnName(i) == <<99, 111, 108, 45>> \o int_to_string(i)

\* Table::to_csv: the records written
to_csv(t, with_names, with_types) ==
    IF t.rows = <<>> THEN <<>>
    ELSE (IF with_names THEN <<[c \in 1..Len(t.rows[1]) |-> ColumnName(c - 1)]>> ELSE <<>>)
         \o (IF with_types
             THEN <<[c \in 1..Len(t.rows[1]) |-> type_as_string(t.rows[1][c])]>>
             ELSE <<>>)
         \o [r \in 1..Len(t.rows) |-> [c \in 1..Len(t.rows[r]) |-> to_string(t.rows[r][c])]]

\* NamedTable::from_csv(id, reader, def), the reader holding the records recs
NamedTable_from_csv(id, recs, def) ==
    IF from_csv(id, recs).err # "Ok"
    THEN Named(new(0), def, [err |-> from_csv(id, recs).err, entries |-> <<>>])
    ELSE from_definition(from_csv(id, recs).table, def)

RECURSIVE SortedNames(_, _)
\* the given names of column_to_index, sorted by their index
SortedNames(c2i, names) ==
    IF names = {} THEN <<>>
    ELSE <<CHOOSE n \in names : \A m \in names : c2i[n] <= c2i[m]>>
            \o SortedNames(c2i, names \ {CHOOSE n \in names : \A m \in names : c2i[n] <= c2i[m]})

\* NamedTable::to_csv: the records written
NamedTable_to_csv(n, with_names, with_types) ==
    IF n.table.rows = <<>> THEN <<>>
    ELSE (IF with_names THEN <<SortedNames(n.column_to_index, DOMAIN n.column_to_index)>>
          ELSE <<>>)
         \o to_csv(n.table, FALSE, with_types)

----------------------------------------------------------------------------
(* Inputs *)

I32(x) == Val("I32", x)
U8(x) == Val("U8", x)
Str(s) == Val("String", s)

I32_MIN == (-2147483647) - 1
I32_MAX == 2147483647

\* "a" repeated to the largest length a string cell may have
BigString == Repeat(97, U16_MAX)
\* the same length, not ASCII: U+00E9 then "a" repeated
BigAccented == <<195, 169>> \o Repeat(97, U16_MAX - 2)

Text_a == <<97>>
Text_e_acute == <<195, 169>>
Text_euro == <<226, 130, 172>>
Text_emoji == <<240, 159, 152, 128>>
Text_012 == <<48, 44, 49, 44, 50>>
Text_map == <<97, 58, 48, 44, 98, 58, 49, 44, 99, 58, 50>>

WideRow ==
    <<I32(3), Val("I8", -1), Val("U8", 200), Val("I16", -2), Val("U16", 65535),
      Val("U32", I32_MAX), Val("I64", -3), Val("U64", 16909060),
      Val("F32", 1065353216), Val("F64", 1)>>

\* the rows handed to add_row
RowInputs ==
    { <<I32(-1)>>,
      <<I32(7)>>,
      <<U8(0)>>,
      <<>>,
      <<I32(0), U8(7)>>,
      <<I32(1), Str(Text_a)>>,
      <<I32(2), Str(Text_e_acute)>>,
      <<I32(-1), Str(Text_012), Str(Text_map)>>,
      WideRow,
      [c \in 1..U8_MAX |-> IF c = 1 THEN I32(5) ELSE U8(0)],
      [c \in 1..(U8_MAX + 1) |-> IF c = 1 THEN I32(0) ELSE U8(0)] }

TableIds == {1, 513}

\* tables add_row builds, taken as starting points: empty ones, one a row
\* short of a jump-table stride, one a row short of the row limit, one
\* holding a string of the largest length
SmallTables ==
    {new(id) : id \in TableIds}
    \cup { [id |-> 1, rows |-> [i \in 1..(JUMP_STRIDE - 1) |-> <<I32(i - 1)>>] \o <<>>] }

InitTables == SmallTables \cup { [id |-> 1, rows |-> << <<I32(9), Str(BigString)>> >>] }

\* strings one byte longer than a string cell may be
HugeString == Repeat(97, U16_MAX + 1)
HugeAccented == <<195, 169>> \o Repeat(97, U16_MAX - 1)

\* a table one row short of the row limit
NearlyFull == [id |-> 1, rows |-> Repeat(<<I32(0)>>, U16_MAX - 1)]

\* the values handed to Value::serialize
ValueInputs ==
    {Val("I8", x) : x \in {-128, -1, 0, 127}}
    \cup {Val("U8", x) : x \in {0, 1, 255}}
    \cup {Val("I16", x) : x \in {-32768, -1, 258, 32767}}
    \cup {Val("U16", x) : x \in {0, 258, 65535}}
    \cup {Val("I32", x) : x \in {I32_MIN, -1, 0, 16909060, I32_MAX}}
    \cup {Val("U32", x) : x \in {0, 16909060, I32_MAX}}
    \cup {Val("I64", x) : x \in {I32_MIN, -1, 0, 16909060, I32_MAX}}
    \cup {Val("U64", x) : x \in {0, 16909060, I32_MAX}}
    \cup {Val("F32", x) : x \in {0, 1065353216, 2143289344}}
    \cup {Val("F64", x) : x \in {0, 1, I32_MAX}}
    \cup {Str(s) : s \in {<<>>, Text_a, Text_e_acute, Text_euro, Text_emoji,
                          Text_012, BigString, BigAccented, HugeString, HugeAccented}}

\* what already lies in the writer before a value, and what follows it
Paddings == {<<>>, <<11>>, <<1, 0, 255>>}

\* "+5,-3,300"
Text_signed == <<43, 53, 44, 45, 51, 44, 51, 48, 48>>
\* "1,,2"
Text_gap == <<49, 44, 44, 50>>
\* "a:1,a:2"
Text_dup == <<97, 58, 49, 44, 97, 58, 50>>
\* "a:1:2"
Text_twice == <<97, 58, 49, 58, 50>>
\* "2147483647,-2147483648"
Text_bounds == <<50, 49, 52, 55, 52, 56, 51, 54, 52, 55, 44, 45, 50, 49, 52, 55, 52, 56, 51, 54, 52, 56>>
\* "2147483648"
Text_beyond == <<50, 49, 52, 55, 52, 56, 51, 54, 52, 56>>
\* "a:"
Text_half == <<97, 58>>

Sep_comma == <<44>>
Sep_colon == <<58>>

\* one cell of each variant
VariantRow ==
    <<I32(3), Val("I8", -1), Val("U8", 200), Val("I16", -2), Val("U16", 65535),
      Val("U32", I32_MAX), Val("I64", -3), Val("U64", 16909060),
      Val("F32", 1065353216), Val("F64", 0), Str(Text_e_acute)>>

\* the tables the accessors are called on: the one of the getters test with
\* more rows, one of every variant, an empty one
AccessTables ==
    { [id |-> 1,
       rows |-> << <<I32(-1), Str(Text_012), Str(Text_map)>>,
                   <<I32(7), Str(Text_signed), Str(Text_dup)>>,
                   <<I32(7), Str(<<>>), Str(Text_twice)>>,
                   <<I32(2), Str(Text_gap), Str(Text_a)>>,
                   <<I32(I32_MIN), Str(Text_bounds), Str(Text_half)>>,
                   <<I32(I32_MAX), Str(Text_beyond), Str(<<>>)>> >>],
      [id |-> 513, rows |-> <<VariantRow>>],
      new(1) }

\* the arguments of the calls
ValueTypes == {"i8", "u8", "i16", "u16", "i32", "u32", "i64", "u64", "f32", "f64", "String"}
ParsedTypes == {"i8", "u8", "u16", "i32", "String"}
KeyTypes == {"String", "i32"}
AccessRows == 0..6
AccessColumns == 0..11
StringColumns == 0..3
Separators == {Sep_comma, Sep_colon}

\* "id", "array", "map", "x", "Test", "i32", "string"
Name_id == <<105, 100>>
Name_array == <<97, 114, 114, 97, 121>>
Name_map == <<109, 97, 112>>
Name_x == <<120>>
Name_Test == <<84, 101, 115, 116>>
Type_i32 == <<105, 51, 50>>
Type_string == <<115, 116, 114, 105, 110, 103>>

\* the definition of the getters test; one whose second name stands twice;
\* one of fewer names than the table has columns; one of more; one of none
Definitions ==
    { [name |-> Name_Test, columns |-> <<Name_id, Name_array, Name_map>>,
       types |-> <<Type_i32, Type_string, Type_string>>],
      [name |-> Name_Test, columns |-> <<Name_id, Name_array, Name_array>>,
       types |-> <<Type_i32, Type_string, Type_string>>],
      [name |-> Name_Test, columns |-> <<Name_id>>, types |-> <<Type_i32>>],
      [name |-> Name_Test, columns |-> <<Name_id, Name_array, Name_map, Name_x>>,
       types |-> <<Type_i32, Type_string, Type_string, Type_i32>>],
      [name |-> <<>>, columns |-> <<>>, types |-> <<Type_i32>>] }

\* the tables wrapped: those of the accessors and tables as deserialize
\* returns them, with a row of no cells or a first cell that is not i32
NamedTables ==
    AccessTables
    \cup { [id |-> 1, rows |-> << <<>> >>],
           [id |-> 1, rows |-> << <<U8(0)>> >>],
           [id |-> 1, rows |-> << <<I32(1), Str(Text_a)>>, <<Str(Text_a), I32(1)>> >>],
           [id |-> 1, rows |-> << <<I32(1)>>, <<>> >>] }

\* the arguments of the calls by name
RowIds == {-1, 7, 2, 5}
ColumnNames == {Name_id, Name_array, Name_map, Name_x, <<>>}
NamedValueTypes == {"i32", "u8", "String"}
NamedParsedTypes == {"i32", "String"}
Lengths == {0, 1, 3}

\* the lines a definitions file is made of:
\*   "7;t;a,b;i32,u8"
\*   "7;u;c;i8"
\*   "  // x"
\*   "  \t"
\*   "  8;v;a;i32 \r"
\*   "-1"
\*   "65536;t;a;i32"
\*   "9"
\*   "9;t"
\*   "9;t;a"
\*   "9;t;a,b;i32"
\*   "+9;;,;,;z"
DefinitionLines ==
    { <<55, 59, 116, 59, 97, 44, 98, 59, 105, 51, 50, 44, 117, 56>>,
      <<55, 59, 117, 59, 99, 59, 105, 56>>,
      <<32, 32, 47, 47, 32, 120>>,
      <<32, 32, 9>>,
      <<194, 160, 54, 59, 119, 59, 97, 59, 105, 51, 50, 227, 128, 128>>,
      <<32, 32, 56, 59, 118, 59, 97, 59, 105, 51, 50, 32, 13>>,
      <<45, 49>>,
      <<54, 53, 53, 51, 54, 59, 116, 59, 97, 59, 105, 51, 50>>,
      <<57>>,
      <<57, 59, 116>>,
      <<57, 59, 116, 59, 97>>,
      <<57, 59, 116, 59, 97, 44, 98, 59, 105, 51, 50>>,
      <<43, 57, 59, 59, 44, 59, 44, 59, 122>> }

NoResult == [err |-> "none", table |-> new(0)]
\* the 11 type names of a type row, and one that is none of them
TypeNames ==
    {type_as_string(Val(k, 0)) : k \in {"I8", "U8", "I16", "U16", "I32", "U32", "I64", "U64",
                                         "F32", "F64", "String"}}
Name_bool == <<98, 111, 111, 108>>
Name_i32 == <<105, 51, 50>>
Text_101 == <<49, 48, 49>>

\* the type rows of the .csv files read
TypeRecords ==
    {<<Name_i32, t>> : t \in TypeNames \cup {Name_bool}}
        \cup {<<type_as_string(Val("String", 0)), Name_i32>>}

\* the texts of the cells of a column of the given type: "5", "-1", "200",
\* "+7", "70000", "x", "", "0", "NaN"
CellTexts(t) ==
    IF t = type_as_string(Val("F64", 0)) THEN {<<48>>, <<120>>, <<>>}
    ELSE IF t = type_as_string(Val("F32", 0))
    THEN {<<48>>, <<53>>, <<78, 97, 78>>, <<120>>, <<>>}
    ELSE {<<53>>, <<45, 49>>, <<50, 48, 48>>, <<43, 55>>, <<55, 48, 48, 48, 48>>, <<120>>, <<>>}

\* the records that can follow a type row: two fields, or one
DataRecords(types) == {<<Text_101, c>> : c \in CellTexts(types[2])} \cup {<<Text_101>>}

\* the cells of the tables written to .csv: one of every variant
CsvValues ==
    {Val("I8", -1), Val("I8", 5), Val("U8", 200), Val("I16", -300), Val("U16", 65535),
     Val("I32", -7), Val("U32", 70000), Val("I64", -5), Val("U64", 9),
     Val("F32", 1065353216), Val("F64", 0), Val("String", <<97>>), Val("String", <<>>)}

\* the tables written to .csv, among them the one of the csv test
CsvTables ==
    {[id |-> 5000, rows |-> <<<<I32(101), v>>>>] : v \in CsvValues}
        \cup {[id |-> 5000, rows |-> <<<<I32(101)>>>>],
              [id |-> 5000, rows |-> <<<<I32(1), Val("String", <<97>>)>>,
                                       <<I32(2), Val("String", <<>>)>>>>],
              new(5000)}

NoFlags == [called |-> FALSE, named |-> FALSE, with_names |-> FALSE, with_types |-> FALSE]

\* the definitions of the tables read from and written to .csv by name
CsvDefinitions ==
    { [name |-> Name_Test, columns |-> <<Name_id, Name_x>>, types |-> <<Type_i32, Type_string>>],
      [name |-> Name_Test, columns |-> <<Name_id>>, types |-> <<Type_i32>>] }
NoBuffer == [err |-> "none", buf |-> <<>>]
NoWrite == [err |-> "none", buf |-> <<>>, start |-> 0, end |-> 0]
NoRead == [err |-> "none", val |-> NoValue, pos |-> 0]
NoNamed == [err |-> "none", name |-> <<>>, table |-> new(0),
            id_to_index |-> <<>>, column_to_index |-> <<>>]
NoCall == [fn |-> "none"]
NoOut == [err |-> "none", v |-> <<>>]
NoDefs == [err |-> "none", map |-> <<>>]

----------------------------------------------------------------------------
(* Streams handed to deserialize *)

SeedTables ==
    { new(1),
      [id |-> 1, rows |-> << <<I32(-1)>> >>],
      [id |-> 513, rows |-> << <<I32(1), Str(Text_a)>>, <<I32(2), Str(Text_e_acute)>> >>],
      [id |-> 1, rows |-> << <<I32(-1), Str(Text_012), Str(Text_map)>> >>],
      [id |-> 1, rows |-> << <<I32(4), Val("I8", -1), Val("U16", 65535)>> >>] }

\* header, column types, one jump entry, payload
Stream(id, lbs, rows, column_types, first_row_id, first_row_offset, payload) ==
    ToLE(id, 2) \o ToLE(lbs, 2) \o ToLE(rows, 2) \o <<Len(column_types)>>
        \o column_types \o ToLE(first_row_id, 4) \o ToLE(first_row_offset, 4) \o payload

CraftedStreams ==
    { <<>>,
      <<1, 0, 2>>,
      \* one row of no columns
      Stream(1, 11, 1, <<>>, 0, 15, <<>>),
      \* the rows start at offset 0, inside the header
      Stream(1, 65533, 1, <<1>>, 0, 0, <<>>),
      Stream(1, 7, 1, <<1>>, 0, 0, <<>>),
      \* a first column that is u8
      Stream(1, 13, 1, <<2>>, 0, 16, <<7>>),
      \* a string that is not UTF-8, flagged ASCII
      Stream(1, 22, 1, <<5, 11>>, 1, 17, ToLE(1, 4) \o <<1, 2, 0, 255, 97>>),
      \* a truncated three-byte character followed by a stray continuation byte
      Stream(1, 24, 1, <<5, 11>>, 1, 17, ToLE(1, 4) \o <<0, 4, 0, 226, 130, 97, 128>>),
      \* unused bytes between the jump table and the rows
      Stream(1, 18, 1, <<5>>, 4, 18, <<0, 0>> \o ToLE(4, 4)),
      \* a second column of a type tag no variant has, with a cell of 3 bytes
      Stream(1, 20, 1, <<5, 12>>, 1, 17, ToLE(1, 4) \o <<1, 0, 0>>),
      \* the same after a first column that cannot be read to its end
      Stream(1, 15, 1, <<5, 12>>, 1, 17, <<1, 0>>),
      \* a column of type tag 0 in a table of no rows
      ToLE(1, 2) \o ToLE(0, 2) \o ToLE(0, 2) \o <<1, 0>> }

SeedStreams == {serialize(t).buf : t \in SeedTables} \cup CraftedStreams

TamperOffsets == {2, 4, 7, 12, 21}
TamperBytes == {0, 2, 255}

\* the type tags and reader positions of Value::read on a stream
ReadTags == {0, 5, 11, 12, 255}
ReadPositions == {0, 7, 17}

----------------------------------------------------------------------------
(* Run-length encoding of the sequences held in the state *)

\* l followed by r, the run that ends l joined with an equal one starting r
JoinRuns(l, r) ==
    IF l[Len(l)].x = r[1].x
    THEN SubSeq(l, 1, Len(l) - 1) \o <<[n |-> l[Len(l)].n + r[1].n, x |-> r[1].x]>> \o Tail(r)
    ELSE l \o r

RECURSIVE Runs(_, _, _)
\* the runs of s[lo..hi]
Runs(s, lo, hi) ==
    IF lo > hi THEN <<>>
    ELSE IF \A i \in lo..hi : s[i] = s[lo] THEN <<[n |-> hi - lo + 1, x |-> s[lo]]>>
    ELSE JoinRuns(Runs(s, lo, (lo + hi) \div 2), Runs(s, ((lo + hi) \div 2) + 1, hi))

Pack(s) == Runs(s, 1, Len(s))

RECURSIVE Expand(_, _, _)
\* the sequence the runs lo..hi stand for
Expand(runs, lo, hi) ==
    IF lo > hi THEN <<>>
    ELSE IF lo = hi THEN Repeat(runs[lo].x, runs[lo].n)
    ELSE Expand(runs, lo, (lo + hi) \div 2) \o Expand(runs, ((lo + hi) \div 2) + 1, hi)

Unpack(runs) == Expand(runs, 1, Len(runs))

\* a Value with the bytes of a string packed
PackValue(value) == IF value.k = "String" THEN Val("String", Pack(value.v)) ELSE value
UnpackValue(value) == IF value.k = "String" THEN Val("String", Unpack(value.v)) ELSE value

PackRow(row) == [c \in 1..Len(row) |-> PackValue(row[c])] \o <<>>
UnpackRow(row) == [c \in 1..Len(row) |-> UnpackValue(row[c])] \o <<>>

\* the runs of equal rows, each run's row packed
PackEach(runs) == [i \in 1..Len(runs) |-> [n |-> runs[i].n, x |-> PackRow(runs[i].x)]] \o <<>>
UnpackEach(runs) == [i \in 1..Len(runs) |-> [n |-> runs[i].n, x |-> UnpackRow(runs[i].x)]] \o <<>>

\* a Table with its rows packed
PackTable(t) == [id |-> t.id, rows |-> PackEach(Pack(t.rows))]
UnpackTable(t) == [id |-> t.id, rows |-> Unpack(UnpackEach(t.rows))]

\* results of add_row, serialize, deserialize and Value::read as held in the state
PackResult(r) == [err |-> r.err, table |-> PackTable(r.table)]
UnpackResult(r) == [err |-> r.err, table |-> UnpackTable(r.table)]
PackBuffer(w) == [err |-> w.err, buf |-> Pack(w.buf)]
PackRead(v) == [err |-> v.err, val |-> PackValue(v.val), pos |-> v.pos]

----------------------------------------------------------------------------
(* Building a table, writing it and reading it back *)

IdleAccess ==
    /\ named = NoNamed
    /\ call = NoCall
    /\ out = NoOut

IdleSheet ==
    /\ records = <<>>
    /\ written = NoFlags
    /\ csv = NoResult

IdleText ==
    /\ contents = <<>>
    /\ defs = NoDefs
    /\ IdleSheet

Idle ==
    /\ res = "none"
    /\ calls = 0
    /\ tampers = 0
    /\ de = NoResult
    /\ re = NoBuffer
    /\ de2 = NoResult
    /\ val = NoValue
    /\ vbuf = NoWrite
    /\ vread = NoRead
    /\ tag = 0
    /\ IdleAccess
    /\ IdleText

Init ==
    /\ table \in {PackTable(t) : t \in InitTables}
    /\ file = <<>>
    /\ ser = "none"
    /\ Idle

AddRow(row) ==
    /\ ser = "none"
    /\ calls < MaxCalls
    /\ LET r == PackResult(add_row(UnpackTable(table), row)) IN
        /\ table' = r.table
        /\ res' = r.err
    /\ calls' = calls + 1
    /\ UNCHANGED <<file, ser, tampers, de, re, de2, val, vbuf, vread, tag, access, text>>

Serialize ==
    /\ ser = "none"
    /\ Len(UnpackTable(table).rows) <= MaxSerializeRows
    /\ LET w == PackBuffer(serialize(UnpackTable(table))) IN
        /\ ser' = w.err
        /\ file' = w.buf
    /\ UNCHANGED <<table, res, calls, tampers, de, re, de2, val, vbuf, vread, tag, access, text>>

Tamper(offset, byte) ==
    /\ de.err = "none"
    /\ tampers < MaxTampers
    /\ offset < Len(Unpack(file))
    /\ Unpack(file)[offset + 1] # byte
    /\ file' = Pack(Overwrite(Unpack(file), offset, <<byte>>))
    /\ tampers' = tampers + 1
    /\ UNCHANGED <<table, res, calls, ser, de, re, de2, val, vbuf, vread, tag, access, text>>

Deserialize ==
    /\ ser # "none"
    /\ de.err = "none"
    /\ \E overflow_checks \in BOOLEAN :
            de' = PackResult(deserialize(Unpack(file), overflow_checks))
    /\ UNCHANGED <<table, res, calls, file, ser, tampers, re, de2, val, vbuf, vread, tag, access, text>>

Reserialize ==
    /\ de.err = "Ok"
    /\ re.err = "none"
    /\ re' = PackBuffer(serialize(UnpackTable(de.table)))
    /\ UNCHANGED <<table, res, calls, file, ser, tampers, de, de2, val, vbuf, vread, tag, access, text>>

Redeserialize ==
    /\ re.err \notin {"none"}
    /\ de2.err = "none"
    /\ \E overflow_checks \in BOOLEAN :
            de2' = PackResult(deserialize(Unpack(re.buf), overflow_checks))
    /\ UNCHANGED <<table, res, calls, file, ser, tampers, de, re, val, vbuf, vread, tag, access, text>>

Next ==
    \/ \E row \in RowInputs : AddRow(row)
    \/ Serialize
    \/ Deserialize

Spec == Init /\ [][Next]_vars

(* add_row alone, up to the row limit *)

InitRows ==
    /\ table \in {PackTable(t) : t \in SmallTables \cup {NearlyFull}}
    /\ file = <<>>
    /\ ser = "none"
    /\ Idle

NextRows == \E row \in RowInputs : AddRow(row)

SpecRows == InitRows /\ [][NextRows]_vars

(* deserialize on arbitrary streams, and writing the result again *)

InitFile ==
    /\ table = new(0)
    /\ file \in {Pack(f) : f \in SeedStreams}
    /\ ser = "given"
    /\ Idle

\* Value::read of one value of type tag field_type, the reader over the
\* stream at pos
ReadColumn(field_type, pos) ==
    /\ vread.err = "none"
    /\ de.err = "none"
    /\ tag' = field_type
    /\ vbuf' = [err |-> "Ok", buf |-> file, start |-> pos, end |-> pos]
    /\ vread' = PackRead(Value_read(field_type, Unpack(file), pos))
    /\ UNCHANGED <<table, res, calls, file, ser, tampers, de, re, de2, val, access, text>>

NextFile ==
    \/ \E offset \in TamperOffsets, byte \in TamperBytes : Tamper(offset, byte)
    \/ Deserialize
    \/ Reserialize
    \/ Redeserialize
    \/ \E field_type \in ReadTags, pos \in ReadPositions : ReadColumn(field_type, pos)

SpecFile == InitFile /\ [][NextFile]_vars

(* Value::serialize followed by Value::read *)

InitValue ==
    /\ table = new(0)
    /\ file = <<>>
    /\ ser = "none"
    /\ res = "none"
    /\ calls = 0
    /\ tampers = 0
    /\ de = NoResult
    /\ re = NoBuffer
    /\ de2 = NoResult
    /\ val \in {PackValue(v) : v \in ValueInputs}
    /\ vbuf = NoWrite
    /\ vread = NoRead
    /\ tag = 0
    /\ IdleAccess
    /\ IdleText

WriteValue(before, after) ==
    /\ vbuf.err = "none"
    /\ LET w == Value_serialize(UnpackValue(val)) IN
        vbuf' = [err |-> w.err, buf |-> Pack(before \o w.bytes \o after),
                 start |-> Len(before), end |-> Len(before) + Len(w.bytes)]
    /\ UNCHANGED <<table, res, calls, file, ser, tampers, de, re, de2, val, vread, tag, access, text>>

ReadValue ==
    /\ vbuf.err = "Ok"
    /\ vread.err = "none"
    /\ tag' = type_as_u8(val)
    /\ vread' = PackRead(Value_read(type_as_u8(val), Unpack(vbuf.buf), vbuf.start))
    /\ UNCHANGED <<table, res, calls, file, ser, tampers, de, re, de2, val, vbuf, access, text>>

\* the tables that hold a value: two that add_row built, the value the last
\* cell of the second row or of the first, and three whose rows were set
\* through the public field, the value after a first cell that is not i32,
\* the value the only cell, and the value the last of 256 cells
TableShapes == {"second row", "first row", "no id", "only cell", "wide"}

TableHolding(shape, value) ==
    CASE shape = "second row" ->
            add_row(add_row(new(1), <<I32(0), U8(7)>>).table, <<I32(1), value>>).table
      [] shape = "first row" -> add_row(new(1), <<I32(0), value>>).table
      [] shape = "no id" -> [id |-> 1, rows |-> <<<<U8(7), value>>>>]
      [] shape = "only cell" -> [id |-> 1, rows |-> <<<<value>>>>]
      [] shape = "wide" ->
            [id |-> 1, rows |-> <<<<I32(0)>> \o Repeat(U8(7), U8_MAX - 1) \o <<value>>>>]

\* Table::serialize of a table that holds val
SerializeRow(shape) ==
    /\ ser = "none"
    /\ LET t == TableHolding(shape, UnpackValue(val))
           w == PackBuffer(serialize(t))
       IN  /\ table' = PackTable(t)
           /\ ser' = w.err
           /\ file' = w.buf
    /\ UNCHANGED <<res, calls, tampers, de, re, de2, val, vbuf, vread, tag, access, text>>

NextValue ==
    \/ \E before \in Paddings, after \in Paddings : WriteValue(before, after)
    \/ ReadValue
    \/ \E shape \in TableShapes : SerializeRow(shape)

SpecValue == InitValue /\ [][NextValue]_vars

(* The positional accessors *)

InitAccess ==
    /\ table \in {PackTable(t) : t \in AccessTables}
    /\ file = <<>>
    /\ ser = "none"
    /\ Idle

GetValue(T, row, column) ==
    /\ call.fn = "none"
    /\ call' = [fn |-> "value", types |-> <<T>>, row |-> row, column |-> column,
                separators |-> <<>>]
    /\ out' = Table_value(UnpackTable(table), T, row, column)
    /\ UNCHANGED <<table, res, calls, file, ser, tampers, de, re, de2, val, vbuf, vread, tag,
                   named, text>>

GetVector(T, row, column, separator) ==
    /\ call.fn = "none"
    /\ call' = [fn |-> "vector", types |-> <<T>>, row |-> row, column |-> column,
                separators |-> <<separator>>]
    /\ out' = Table_vector(UnpackTable(table), T, row, column, separator)
    /\ UNCHANGED <<table, res, calls, file, ser, tampers, de, re, de2, val, vbuf, vread, tag,
                   named, text>>

GetMap(K, V, row, column, pair_separator, kv_separator) ==
    /\ call.fn = "none"
    /\ call' = [fn |-> "map", types |-> <<K, V>>, row |-> row, column |-> column,
                separators |-> <<pair_separator, kv_separator>>]
    /\ out' = Table_map(UnpackTable(table), K, V, row, column, pair_separator, kv_separator)
    /\ UNCHANGED <<table, res, calls, file, ser, tampers, de, re, de2, val, vbuf, vread, tag,
                   named, text>>

NextAccess ==
    \/ \E T \in ValueTypes, row \in AccessRows, column \in AccessColumns :
            GetValue(T, row, column)
    \/ \E T \in ParsedTypes, row \in AccessRows, column \in StringColumns,
          separator \in Separators :
            GetVector(T, row, column, separator)
    \/ \E K \in KeyTypes, V \in ParsedTypes, row \in AccessRows, column \in StringColumns,
          pair_separator \in Separators, kv_separator \in Separators :
            GetMap(K, V, row, column, pair_separator, kv_separator)

SpecAccess == InitAccess /\ [][NextAccess]_vars

(* NamedTable: from_definition, then the accessors by name *)

PackNamed(n) == [n EXCEPT !.table = PackTable(@)]
UnpackNamed(n) == [n EXCEPT !.table = UnpackTable(@)]

\* the table and the definitions parsed, which hold one of its id
InitNamed ==
    /\ table \in {PackTable(t) : t \in NamedTables}
    /\ file = <<>>
    /\ ser = "none"
    /\ res = "none"
    /\ calls = 0
    /\ tampers = 0
    /\ de = NoResult
    /\ re = NoBuffer
    /\ de2 = NoResult
    /\ val = NoValue
    /\ vbuf = NoWrite
    /\ vread = NoRead
    /\ tag = 0
    /\ IdleAccess
    /\ contents = <<>>
    /\ defs \in {[err |-> "Ok", map |-> [id \in {table.id} |-> def]] : def \in Definitions}
    /\ IdleSheet

FromDefinition ==
    /\ named.err = "none"
    /\ named' = PackNamed(from_definition(UnpackTable(table), defs.map[table.id]))
    /\ UNCHANGED <<table, res, calls, file, ser, tampers, de, re, de2, val, vbuf, vread, tag,
                   call, out, text>>

NamedValue(T, row_id, column_name) ==
    /\ named.err = "Ok"
    /\ call.fn = "none"
    /\ call' = [fn |-> "named.value", types |-> <<T>>, row_id |-> row_id,
                column_name |-> column_name, separators |-> <<>>]
    /\ out' = NamedTable_value(UnpackNamed(named), T, row_id, column_name)
    /\ UNCHANGED <<table, res, calls, file, ser, tampers, de, re, de2, val, vbuf, vread, tag,
                   named, text>>

NamedVector(T, row_id, column_name, separator) ==
    /\ named.err = "Ok"
    /\ call.fn = "none"
    /\ call' = [fn |-> "named.vector", types |-> <<T>>, row_id |-> row_id,
                column_name |-> column_name, separators |-> <<separator>>]
    /\ out' = NamedTable_vector(UnpackNamed(named), T, row_id, column_name, separator)
    /\ UNCHANGED <<table, res, calls, file, ser, tampers, de, re, de2, val, vbuf, vread, tag,
                   named, text>>

NamedArray(T, row_id, column_name, separator, length) ==
    /\ named.err = "Ok"
    /\ call.fn = "none"
    /\ call' = [fn |-> "named.array", types |-> <<T>>, row_id |-> row_id,
                column_name |-> column_name, separators |-> <<separator>>,
                length |-> length]
    /\ out' = NamedTable_array(UnpackNamed(named), T, row_id, column_name, separator, length)
    /\ UNCHANGED <<table, res, calls, file, ser, tampers, de, re, de2, val, vbuf, vread, tag,
                   named, text>>

NamedMap(K, V, row_id, column_name, pair_separator, kv_separator) ==
    /\ named.err = "Ok"
    /\ call.fn = "none"
    /\ call' = [fn |-> "named.map", types |-> <<K, V>>, row_id |-> row_id,
                column_name |-> column_name,
                separators |-> <<pair_separator, kv_separator>>]
    /\ out' = NamedTable_map(UnpackNamed(named), K, V, row_id, column_name,
                             pair_separator, kv_separator)
    /\ UNCHANGED <<table, res, calls, file, ser, tampers, de, re, de2, val, vbuf, vread, tag,
                   named, text>>

RowIdsOf ==
    /\ named.err = "Ok"
    /\ call.fn = "none"
    /\ call' = [fn |-> "named.row_ids"]
    /\ out' = [err |-> "Ok", v |-> row_ids(UnpackNamed(named))]
    /\ UNCHANGED <<table, res, calls, file, ser, tampers, de, re, de2, val, vbuf, vread, tag,
                   named, text>>

NextNamed ==
    \/ FromDefinition
    \/ \E T \in NamedValueTypes, row_id \in RowIds, column_name \in ColumnNames :
            NamedValue(T, row_id, column_name)
    \/ \E T \in NamedParsedTypes, row_id \in RowIds, column_name \in ColumnNames,
          separator \in Separators :
            NamedVector(T, row_id, column_name, separator)
    \/ \E T \in NamedParsedTypes, row_id \in RowIds, column_name \in ColumnNames,
          separator \in Separators, length \in Lengths :
            NamedArray(T, row_id, column_name, separator, length)
    \/ \E K \in KeyTypes, V \in NamedParsedTypes, row_id \in RowIds,
          column_name \in ColumnNames, pair_separator \in Separators,
          kv_separator \in Separators :
            NamedMap(K, V, row_id, column_name, pair_separator, kv_separator)
    \/ RowIdsOf

SpecNamed == InitNamed /\ [][NextNamed]_vars

(* A definitions file written line by line, then parsed *)

InitDefs ==
    /\ table = new(0)
    /\ file = <<>>
    /\ ser = "none"
    /\ Idle

AppendLine(line) ==
    /\ defs.err = "none"
    /\ Cardinality({i \in 1..Len(contents) : contents[i] = 10}) < MaxLines
    /\ contents' = contents \o line \o <<10>>
    /\ UNCHANGED <<table, res, calls, file, ser, tampers, de, re, de2, val, vbuf, vread, tag,
                   access, defs, sheet>>

Parse ==
    /\ defs.err = "none"
    /\ defs' = parse(contents)
    /\ UNCHANGED <<table, res, calls, file, ser, tampers, de, re, de2, val, vbuf, vread, tag,
                   access, contents, sheet>>

NextDefs ==
    \/ \E line \in DefinitionLines : AppendLine(line)
    \/ Parse

SpecDefs == InitDefs /\ [][NextDefs]_vars

(* A .csv file written by to_csv or record by record, then read by from_csv *)

InitCsv ==
    /\ table \in {PackTable(t) : t \in CsvTables}
    /\ file = <<>>
    /\ ser = "none"
    /\ res = "none"
    /\ calls = 0
    /\ tampers = 0
    /\ de = NoResult
    /\ re = NoBuffer
    /\ de2 = NoResult
    /\ val = NoValue
    /\ vbuf = NoWrite
    /\ vread = NoRead
    /\ tag = 0
    /\ IdleAccess
    /\ contents = <<>>
    /\ defs \in {[err |-> "Ok", map |-> [id \in {table.id} |-> def]] : def \in CsvDefinitions}
    /\ IdleSheet

ToCsv(with_names, with_types) ==
    /\ ~written.called
    /\ records = <<>>
    /\ csv.err = "none"
    /\ records' = to_csv(UnpackTable(table), with_names, with_types)
    /\ written' = [called |-> TRUE, named |-> FALSE,
                   with_names |-> with_names, with_types |-> with_types]
    /\ UNCHANGED <<table, res, calls, file, ser, tampers, de, re, de2, val, vbuf, vread, tag,
                   access, contents, defs, csv>>

\* the records that can come next in a file written record by record
NextRecords ==
    IF written.called THEN {}
    ELSE IF records = <<>> THEN TypeRecords
    ELSE DataRecords(records[1])

\* a record put at the end of the file
AppendRecord(record) ==
    /\ ~written.called
    /\ table.rows = <<>>
    /\ csv.err = "none"
    /\ Len(records) < MaxRecords
    /\ records' = Append(records, record)
    /\ UNCHANGED <<table, res, calls, file, ser, tampers, de, re, de2, val, vbuf, vread, tag,
                   access, contents, defs, written, csv>>

FromCsv ==
    /\ csv.err = "none"
    /\ csv' = from_csv(table.id, records)
    /\ UNCHANGED <<table, res, calls, file, ser, tampers, de, re, de2, val, vbuf, vread, tag,
                   access, contents, defs, records, written>>

\* NamedTable::to_csv of the table wrapped
NamedToCsv(with_names, with_types) ==
    /\ named.err = "Ok"
    /\ ~written.called
    /\ records = <<>>
    /\ csv.err = "none"
    /\ records' = NamedTable_to_csv(UnpackNamed(named), with_names, with_types)
    /\ written' = [called |-> TRUE, named |-> TRUE,
                   with_names |-> with_names, with_types |-> with_types]
    /\ UNCHANGED <<table, res, calls, file, ser, tampers, de, re, de2, val, vbuf, vread, tag,
                   access, contents, defs, csv>>

\* NamedTable::from_csv on the file, with the definition of the table
NamedFromCsv ==
    /\ named.err = "none"
    /\ named' = PackNamed(NamedTable_from_csv(table.id, records, defs.map[table.id]))
    /\ UNCHANGED <<table, res, calls, file, ser, tampers, de, re, de2, val, vbuf, vread, tag,
                   call, out, text>>

NextCsv ==
    \/ \E with_names \in BOOLEAN, with_types \in BOOLEAN : ToCsv(with_names, with_types)
    \/ \E record \in NextRecords : AppendRecord(record)
    \/ FromCsv
    \/ FromDefinition
    \/ \E with_names \in BOOLEAN, with_types \in BOOLEAN : NamedToCsv(with_names, with_types)
    \/ NamedFromCsv

SpecCsv == InitCsv /\ [][NextCsv]_vars

----------------------------------------------------------------------------
(* Properties *)

\* the table being built, the bytes of the file, the table read from them
TheTable == UnpackTable(table)
TheFile == Unpack(file)
TheRead == UnpackResult(de)

\* the variants of the cells of a row, in order
TypeVector(row) == [c \in 1..Len(row) |-> row[c].k]

\* every row has the type vector of row 0
SharedTypes(t) == \A r \in 1..Len(t.rows) : TypeVector(t.rows[r]) = TypeVector(t.rows[1])

\* C1: for every valid table (1 to 65535 rows, multiples of 100 included, all
\* rows of row 0's types) serialize into an empty writer succeeds, and
\* deserialize of the bytes written returns the same id and the same rows in
\* the same order.
C1_SerializeDeserialize ==
    (ser # "none" /\ Len(TheTable.rows) >= 1 /\ SharedTypes(TheTable))
        => /\ ser = "Ok"
           /\ de.err # "none" => TheRead = [err |-> "Ok", table |-> TheTable]

\* C2: for every stream that deserialize accepts, serialize of the table read
\* succeeds and the bytes it writes deserialize to that same table.
C2_FileRoundTrip ==
    (de.err = "Ok" /\ re.err # "none")
        => /\ re.err = "Ok"
           /\ de2.err # "none" => UnpackResult(de2) = TheRead

\* the guards of add_row that a call with row on table t violates
ViolatedGuards(t, row) ==
    {g \in {"TooManyRows", "TooManyColumns", "InvalidRowID", "InconsistentRowLength"} :
        \/ g = "TooManyRows" /\ Len(t.rows) >= 65535
        \/ g = "TooManyColumns" /\ Len(row) > 255
        \/ g = "InvalidRowID" /\ (row = <<>> \/ row[1].k # "I32")
        \/ g = "InconsistentRowLength" /\ t.rows # <<>> /\ Len(row) # Len(t.rows[1])}

\* C3: add_row returns an error if and only if the call violates one of the
\* four guards, the error being that of a violated guard; every other row is
\* accepted and stored at the end.
C3_AddRowGuards ==
    [][\A row \in RowInputs :
         AddRow(row) =>
            /\ res' # "Ok" <=> ViolatedGuards(TheTable, row) # {}
            /\ res' # "Ok" => res' \in ViolatedGuards(TheTable, row)
            /\ res' = "Ok" =>
                UnpackTable(table') = [TheTable EXCEPT !.rows = Append(@, row)]]_vars

\* a call refused because the table already holds 65535 rows
C3_Witness == res = "TooManyRows" /\ Len(TheTable.rows) = U16_MAX

\* C4: after any sequence of add_row calls, successful or failed, the table
\* holds at most 65535 rows, every row has between 1 and 255 cells, every
\* row's first cell is an I32, and all rows have the same number of cells.
C4_RowInvariant ==
    LET rows == TheTable.rows
    IN  /\ Len(rows) <= 65535
        /\ \A r \in 1..Len(rows) :
            /\ Len(rows[r]) \in 1..255
            /\ rows[r][1].k = "I32"
            /\ Len(rows[r]) = Len(rows[1])

\* a row accepted, then a row refused, the table keeping the accepted one
C4_Witness ==
    /\ calls >= 2
    /\ res = "InconsistentRowLength"
    /\ Len(TheTable.rows) = JUMP_STRIDE

\* C5: in every non-empty table reachable through new and add_row, every
\* cell has the variant of the cell of row 0 in its column.
C5_SharedTypeVector ==
    LET rows == TheTable.rows
    IN  \A r \in 1..Len(rows) : \A c \in 1..Len(rows[r]) : rows[r][c].k = rows[1][c].k

\* the u16 stored at byte offset 2 of a file
StoredLbs(bytes) == bytes[3] + 256 * bytes[4]

\* C6: after a successful serialize of a table with at least one row into an
\* empty writer, the u16 at byte offset 2 is (file_size - 4) mod 65536.
C6_LastBlockSize ==
    (ser = "Ok" /\ table.rows # <<>>)
        => StoredLbs(TheFile) = (Len(TheFile) - 4) % 65536

\* an output longer than 65539 bytes, whose stored value has wrapped and is
\* not the placeholder
C6_Witness ==
    /\ ser = "Ok"
    /\ Len(TheFile) > 65539
    /\ StoredLbs(TheFile) = Len(TheFile) - 4 - 65536
    /\ StoredLbs(TheFile) # LBS_PLACEHOLDER

\* C7: serialize of an empty table with id i writes exactly the 6 bytes
\* i (u16 LE), 02 00, 00 00 (for id 1: 01 00 02 00 00 00), and deserialize
\* of them returns an empty table with the same id.
C7_EmptyTable ==
    (ser # "none" /\ TheTable.rows = <<>>)
        => /\ ser = "Ok"
           /\ TheFile = <<table.id % 256, table.id \div 256, 2, 0, 0, 0>>
           /\ table.id = 1 => TheFile = <<1, 0, 2, 0, 0, 0>>
           /\ de.err # "none" => TheRead = [err |-> "Ok", table |-> [id |-> table.id, rows |-> <<>>]]

\* the empty table of id 1 written and read back
C7_Witness ==
    /\ TheTable = [id |-> 1, rows |-> <<>>]
    /\ TheFile = <<1, 0, 2, 0, 0, 0>>
    /\ TheRead = [err |-> "Ok", table |-> [id |-> 1, rows |-> <<>>]]

\* bytes a cell occupies in the file
CellSize(value) ==
    CASE value.k \in {"I8", "U8"} -> 1
      [] value.k \in {"I16", "U16"} -> 2
      [] value.k \in {"I32", "U32", "F32"} -> 4
      [] value.k \in {"I64", "U64", "F64"} -> 8
      [] value.k = "String" -> 3 + Len(value.v)

RECURSIVE RowSize(_, _, _)
\* bytes the cells lo..hi of a row occupy
RowSize(row, lo, hi) ==
    IF lo > hi THEN 0
    ELSE IF lo = hi THEN CellSize(row[lo])
    ELSE RowSize(row, lo, (lo + hi) \div 2) + RowSize(row, ((lo + hi) \div 2) + 1, hi)

RECURSIVE PayloadSize(_, _, _)
\* bytes the rows lo..hi occupy
PayloadSize(rows, lo, hi) ==
    IF lo > hi THEN 0
    ELSE IF lo = hi THEN RowSize(rows[lo], 1, Len(rows[lo]))
    ELSE PayloadSize(rows, lo, (lo + hi) \div 2)
            + PayloadSize(rows, ((lo + hi) \div 2) + 1, hi)

\* the i32 and the u32 of the 8-byte entry k of the jump table of a file of
\* C columns
EntryId(bytes, C, k) == SignedLE(SubSeq(bytes, 7 + C + 8 * k + 1, 7 + C + 8 * k + 4))
EntryOffset(bytes, C, k) == UnsignedLE(SubSeq(bytes, 7 + C + 8 * k + 5, 7 + C + 8 * k + 8))

\* the statement of C8 for the table t and the bytes written for it
JumpTableOf(t, bytes) ==
    LET N == Len(t.rows)
        C == Len(t.rows[1])
        J == 1 + (N \div 100)
    IN  /\ Len(bytes) = 7 + C + 8 * J + PayloadSize(t.rows, 1, N)
        /\ EntryOffset(bytes, C, 0) = 7 + C + 8 * J
        /\ \A k \in 0..(J - 1) :
            /\ EntryId(bytes, C, k) = t.rows[100 * k + 1][1].v
            /\ EntryOffset(bytes, C, k) = 7 + C + 8 * J + PayloadSize(t.rows, 1, 100 * k)

\* C8: in the file serialize writes for a table of N >= 1 rows and C columns,
\* the jump table at offset 7 + C has exactly J = 1 + floor(N/100) 8-byte
\* entries before the rows, entry k holds the id and the absolute offset of
\* row 100*k for every k < J, and entry 0's offset is 7 + C + 8*J.
C8_JumpTable == (ser = "Ok" /\ table.rows # <<>>) => JumpTableOf(TheTable, TheFile)

\* a file of more than 100 rows: two entries, the second for row 100
C8_Witness ==
    /\ ser = "Ok"
    /\ Len(TheTable.rows) = JUMP_STRIDE + 1
    /\ EntryId(TheFile, 1, 1) = TheTable.rows[JUMP_STRIDE + 1][1].v
    /\ EntryOffset(TheFile, 1, 1) = 7 + 1 + 16 + 4 * JUMP_STRIDE

\* the statement of C9 for the stream bytes and the result r of deserialize
LastBlockSizeChecked(bytes, r) ==
    LET id == bytes[1] + 256 * bytes[2]
        row_count == bytes[5] + 256 * bytes[6]
        read == IF row_count > 0 /\ Len(bytes) >= 7
                THEN ReadBody(bytes, row_count, bytes[7])
                ELSE [err |-> "Io:UnexpectedEof", rows |-> <<>>, pos |-> 0]
    IN  /\ r.err = "LastBlockSizeMismatch"
            <=> (row_count > 0 /\ read.err = "Ok"
                 /\ StoredLbs(bytes) # (read.pos - 4) % 65536)
        /\ row_count = 0 => r = [err |-> "Ok", table |-> [id |-> id, rows |-> <<>>]]

\* C9: deserialize returns LastBlockSizeMismatch exactly when the row count is
\* not 0, every read succeeds and the stored last block size differs from
\* (end - 4) mod 65536, end being the position after the last row; with a row
\* count of 0 it returns the empty table of the stored id, whatever the
\* stored last block size.
C9_LastBlockSizeCheck ==
    (de.err # "none" /\ Len(TheFile) >= 6) => LastBlockSizeChecked(TheFile, TheRead)

\* C10: for every numeric value and every string of at most 65535 bytes of
\* valid UTF-8, Value::read with the value's type tag on the bytes serialize
\* wrote returns the same variant and payload and consumes exactly those
\* bytes: 1, 2, 4 or 8 for numerics, 3 + len for strings.
C10_ValueRoundTrip ==
    vread.err # "none" =>
        /\ vread.err = "Ok"
        /\ UnpackValue(vread.val) = UnpackValue(val)
        /\ vread.pos = vbuf.end
        /\ vbuf.end - vbuf.start = CellSize(UnpackValue(val))

\* a string of 65535 bytes that is not ASCII, written between other bytes and
\* read back
C10_Witness ==
    /\ vread.err = "Ok"
    /\ val.k = "String"
    /\ Len(UnpackValue(val).v) = U16_MAX
    /\ ~is_ascii(UnpackValue(val).v)
    /\ vbuf.start > 0
    /\ vbuf.end < Len(Unpack(vbuf.buf))

\* the 1-based columns whose type tag, as the header of bytes lists it, is the
\* tag of no variant
UnknownColumns(bytes) ==
    IF Len(bytes) < JUMP_TABLE_BASE THEN {}
    ELSE {c \in 1..bytes[JUMP_TABLE_BASE] :
             Len(bytes) >= JUMP_TABLE_BASE + c /\ bytes[JUMP_TABLE_BASE + c] \notin 1..11}

\* deserialize of bytes reads the cells of the first row that precede column c
ReachesColumn(bytes, c) ==
    /\ CanRead(bytes, JUMP_TABLE_BASE, bytes[JUMP_TABLE_BASE] + JUMP_ENTRY_SIZE)
    /\ ReadCells(bytes, UnsignedLE(Bytes(bytes, JUMP_TABLE_BASE + bytes[JUMP_TABLE_BASE] + 4, 4)),
                 Bytes(bytes, JUMP_TABLE_BASE, bytes[JUMP_TABLE_BASE]), 1, c - 1).err = "Ok"

\* the statement of C11 for the stream bytes and the result r of deserialize
UnknownTagSurfaced(bytes, r) ==
    (UnknownColumns(bytes) # {} /\ UnsignedLE(Bytes(bytes, 4, 2)) > 0) =>
        /\ r.err # "Ok"
        /\ ReachesColumn(bytes, Min(UnknownColumns(bytes))) => r.err = "Io:InvalidData"

\* C11: Value::read with a type tag outside 1..11 fails with InvalidData and
\* leaves the reader where it was; deserialize of a stream of at least one
\* row whose header lists such a tag never returns a table, and returns
\* InvalidData when the cells before that column of the first row are read.
C11_UnknownTag ==
    /\ (vread.err # "none" /\ tag \notin 1..11) =>
            (vread.err = "Io:InvalidData" /\ vread.pos = vbuf.start)
    /\ de.err # "none" => UnknownTagSurfaced(TheFile, TheRead)

\* tag 12 read at offset 7 where bytes remain, then deserialize of a stream
\* whose second column has that tag and whose first cell is read
C11_Witness ==
    /\ tag = 12
    /\ vread.err = "Io:InvalidData"
    /\ vbuf.start = 7
    /\ Len(TheFile) > 7
    /\ de.err = "Io:InvalidData"
    /\ UnknownColumns(TheFile) = {2}
    /\ ReachesColumn(TheFile, 2)

\* the call made last names a cell of the table
InRange == call.row < Len(TheTable.rows) /\ call.column < Len(TheTable.rows[call.row + 1])

\* the cell the call made last names
TheCell == TheTable.rows[call.row + 1][call.column + 1]

\* what the statements of C12, C13 and C14 say of indexes out of range
IndexesChecked ==
    /\ call.row >= Len(TheTable.rows) => out.err = "RowNotFound"
    /\ (call.row < Len(TheTable.rows) /\ ~InRange) => out.err = "ColumnNotFound"

RECURSIVE DecimalSum(_, _, _)
\* the number the decimal digits s[i..] stand for, times sign
DecimalSum(s, i, sign) ==
    IF i > Len(s) THEN 0
    ELSE sign * (s[i] - 48) * (10 ^ (Len(s) - i)) + DecimalSum(s, i + 1, sign)

\* s is the decimal text of x: digits, no leading zero, "-" first when x < 0
IsDecimalOf(s, x) ==
    LET first == IF x < 0 THEN 2 ELSE 1 IN
    /\ Len(s) >= first
    /\ x < 0 => s[1] = 45
    /\ \A i \in first..Len(s) : s[i] \in 48..57
    /\ s[first] = 48 => Len(s) = first
    /\ DecimalSum(s, first, IF x < 0 THEN -1 ELSE 1) = x

\* C12: value<T>(row, col) returns RowNotFound when row is not below the
\* number of rows, otherwise ColumnNotFound when col is not below the row's
\* length; otherwise for a numeric T the payload when the cell is of exactly
\* the variant of T and ValueConversionFailed for every other variant, and
\* for String always the display string: the decimal text of an integer
\* cell, the text of a string cell.
C12_PositionalValue ==
    call.fn = "value" =>
        /\ IndexesChecked
        /\ (InRange /\ call.types[1] # "String") =>
                IF TheCell.k = VariantOf(call.types[1])
                THEN out.err = "Ok" /\ out.v = TheCell.v
                ELSE out.err = "ValueConversionFailed"
        /\ (InRange /\ call.types[1] = "String") =>
                /\ out.err = "Ok"
                /\ TheCell.k = "String" => out.v = TheCell.v
                /\ TheCell.k \notin {"String", "F32", "F64"} => IsDecimalOf(out.v, TheCell.v)

\* value<i32> on the U32 cell of a row fails; it is in range
C12_Witness ==
    /\ call.fn = "value"
    /\ call.types = <<"i32">>
    /\ InRange
    /\ TheCell.k = "U32"
    /\ out.err = "ValueConversionFailed"

\* where the k-th byte b of s lies; 0 for k = 0, past the end of s when s
\* holds fewer
Cut(s, b, k) ==
    IF k = 0 THEN 0
    ELSE IF k > Cardinality({p \in 1..Len(s) : s[p] = b}) THEN Len(s) + 1
    ELSE CHOOSE p \in 1..Len(s) :
            s[p] = b /\ Cardinality({q \in 1..(p - 1) : s[q] = b}) = k - 1

\* the pieces of s between the occurrences of a separator of one byte
PiecesOf(s, sep) ==
    [k \in 1..(Cardinality({p \in 1..Len(s) : s[p] = sep[1]}) + 1) |->
        SubSeq(s, Cut(s, sep[1], k - 1) + 1, Cut(s, sep[1], k) - 1)]

\* the statement of C13 for the pieces of the cell
PiecesParsed(T, pieces) ==
    IF \E i \in 1..Len(pieces) : ~from_str(T, pieces[i]).some
    THEN out.err = "ValueConversionFailed"
    ELSE /\ out.err = "Ok"
         /\ Len(out.v) = Len(pieces)
         /\ \A i \in 1..Len(pieces) : out.v[i] = from_str(T, pieces[i]).v

\* C13: vector<T>(row, col, sep) returns RowNotFound or ColumnNotFound for
\* indexes out of range, InvalidColumnType when the cell is not a string,
\* ValueConversionFailed when a piece of the cell split by sep does not parse
\* as T, and otherwise the parsed pieces in order, one element per piece.
C13_PositionalVector ==
    call.fn = "vector" =>
        /\ IndexesChecked
        /\ (InRange /\ TheCell.k # "String") => out.err = "InvalidColumnType"
        /\ (InRange /\ TheCell.k = "String") =>
                PiecesParsed(call.types[1], PiecesOf(TheCell.v, call.separators[1]))

\* "0,1,2" split by "," as i32 gives 0, 1, 2
C13_Witness ==
    /\ call.fn = "vector"
    /\ call.types = <<"i32">>
    /\ call.separators = <<Sep_comma>>
    /\ InRange
    /\ TheCell = Str(Text_012)
    /\ out = [err |-> "Ok", v |-> <<0, 1, 2>>]

\* a piece split once by a separator of one byte: what precedes its first
\* occurrence and everything after it
SplitOnce(piece, sep) ==
    [found |-> \E p \in 1..Len(piece) : piece[p] = sep[1],
     k |-> SubSeq(piece, 1, Cut(piece, sep[1], 1) - 1),
     v |-> SubSeq(piece, Cut(piece, sep[1], 1) + 1, Len(piece))]

\* the statement of C14 for the pairs of the cell's pieces
PairsParsed(K, V, pairs) ==
    IF \E i \in 1..Len(pairs) :
            \/ ~pairs[i].found
            \/ ~from_str(K, pairs[i].k).some
            \/ ~from_str(V, pairs[i].v).some
    THEN out.err = "ValueConversionFailed"
    ELSE /\ out.err = "Ok"
         /\ DOMAIN out.v = {from_str(K, pairs[i].k).v : i \in 1..Len(pairs)}
         /\ \A i \in 1..Len(pairs) :
                (\A j \in (i + 1)..Len(pairs) : pairs[j].k # pairs[i].k)
                    => out.v[from_str(K, pairs[i].k).v] = from_str(V, pairs[i].v).v

PairsOf(pieces, kv_sep) == [i \in 1..Len(pieces) |-> SplitOnce(pieces[i], kv_sep)]

\* C14: map<K,V>(row, col, pair_sep, kv_sep) splits the string cell by
\* pair_sep and each piece once by kv_sep into (k, v), v being everything
\* after the first kv_sep; it returns ValueConversionFailed when a piece has
\* no kv_sep or its k or v does not parse, and otherwise a map in which a key
\* of several pieces maps to the value of the last of them.
C14_PositionalMap ==
    (call.fn = "map" /\ InRange /\ TheCell.k = "String") =>
        PairsParsed(call.types[1], call.types[2],
                    PairsOf(PiecesOf(TheCell.v, call.separators[1]), call.separators[2]))

TheNamed == UnpackNamed(named)
TheDef == defs.map[table.id]

\* two results are the same error or the same value
SameResult(a, b) == a.err = b.err /\ (a.err = "Ok" => a.v = b.v)

\* C15: array<T>(row_id, column, sep, required_len) returns what
\* vector<T>(row_id, column, sep) returns when that fails or has required_len
\* elements, and MismatchedLength when vector succeeds with another number
\* of elements.
C15_Array ==
    call.fn = "named.array" =>
        LET ret == NamedTable_vector(TheNamed, call.types[1], call.row_id,
                                     call.column_name, call.separators[1])
        IN  IF ret.err # "Ok" \/ Len(ret.v) = call.length
            THEN SameResult(out, ret)
            ELSE out.err = "MismatchedLength"

\* "0,1,2" of the row of id -1 asked for as an array of 1 element
C15_Witness ==
    /\ call.fn = "named.array"
    /\ call.row_id = -1
    /\ call.column_name = Name_array
    /\ call.separators = <<Sep_comma>>
    /\ call.length = 1
    /\ out.err = "MismatchedLength"
    /\ Len(TheNamed.table.rows) > 1

\* the positional accessor that answers the call by name made last, at
\* (row, column)
Positional(row, column) ==
    CASE call.fn = "named.value" -> Table_value(TheTable, call.types[1], row, column)
      [] call.fn = "named.vector" ->
            Table_vector(TheTable, call.types[1], row, column, call.separators[1])
      [] call.fn = "named.map" ->
            Table_map(TheTable, call.types[1], call.types[2], row, column,
                      call.separators[1], call.separators[2])

\* C16: an accessor by name returns RowNotFound when row_id is the first cell
\* of no row, otherwise ColumnNotFound when column_name is not among the
\* definition's columns, otherwise the result of the positional accessor at
\* (id_to_index[row_id], a position of column_name in def.columns).
C16_NamedAccess ==
    call.fn \in {"named.value", "named.vector", "named.map"} =>
        IF \A i \in 1..Len(TheTable.rows) : TheTable.rows[i][1].v # call.row_id
        THEN out.err = "RowNotFound"
        ELSE IF \A p \in 1..Len(TheDef.columns) : TheDef.columns[p] # call.column_name
        THEN out.err = "ColumnNotFound"
        ELSE \E p \in 1..Len(TheDef.columns) :
                /\ TheDef.columns[p] = call.column_name
                /\ SameResult(out, Positional(IndexMap_get(named.id_to_index, call.row_id).v,
                                              p - 1))

\* vector by name on the test table: id -1, column "array"
C16_Witness ==
    /\ call.fn = "named.vector"
    /\ call.types = <<"i32">>
    /\ call.row_id = -1
    /\ call.column_name = Name_array
    /\ TheDef.columns = <<Name_id, Name_array, Name_map>>
    /\ out = [err |-> "Ok", v |-> <<0, 1, 2>>]

\* C17: from_definition fails with ColumnNotFound exactly when some row is
\* empty or has a first cell that is not I32; otherwise it succeeds whatever
\* the definition, and wraps the table unchanged.
C17_FromDefinition ==
    named.err # "none" =>
        /\ named.err = "ColumnNotFound"
            <=> \E i \in 1..Len(TheTable.rows) :
                    Len(TheTable.rows[i]) = 0 \/ TheTable.rows[i][1].k # "I32"
        /\ named.err # "ColumnNotFound" => (named.err = "Ok" /\ TheNamed.table = TheTable)

\* a table of six rows of three cells wrapped under a definition of one column
C17_Witness ==
    /\ named.err = "Ok"
    /\ Len(TheNamed.table.rows) = 6
    /\ Len(TheDef.columns) = 1

\* C18: row_ids() yields the first-cell ids of the wrapped table's rows, row 0
\* first: as many ids as rows, the k-th the id of row k.
C18_RowIds ==
    call.fn = "named.row_ids" =>
        out.v = [i \in 1..Len(TheNamed.table.rows) |-> TheNamed.table.rows[i][1].v]

RECURSIVE AllWhite(_)
\* s is made of white space characters only
AllWhite(s) ==
    s = <<>> \/ (WhiteStart(s) > 0 /\ AllWhite(SubSeq(s, WhiteStart(s) + 1, Len(s))))

\* a line without the white space at its ends
Stripped(l) ==
    IF AllWhite(l) THEN <<>>
    ELSE SubSeq(l, CHOOSE i \in 1..Len(l) :
                        /\ AllWhite(SubSeq(l, 1, i - 1))
                        /\ WhiteStart(SubSeq(l, i, Len(l))) = 0,
                   CHOOSE i \in 1..Len(l) :
                        /\ AllWhite(SubSeq(l, i + 1, Len(l)))
                        /\ WhiteEnd(SubSeq(l, 1, i)) = 0)

IsData(l) == l # <<>> /\ ~(Len(l) >= 2 /\ l[1] = 47 /\ l[2] = 47)

\* the lines of the text that are neither blank nor comments, stripped
DataLines(s) ==
    SelectSeq([k \in DOMAIN PiecesOf(s, <<10>>) |-> Stripped(PiecesOf(s, <<10>>)[k])], IsData)

\* the definition a line id;name;c1,..,cn;t1,..,tn stands for
DefinitionOf(l) ==
    [name |-> PiecesOf(l, <<59>>)[2],
     columns |-> PiecesOf(PiecesOf(l, <<59>>)[3], <<44>>),
     types |-> PiecesOf(PiecesOf(l, <<59>>)[4], <<44>>)]

IdOf(l) == from_str("u16", PiecesOf(l, <<59>>)[1])

\* what the statement of C20 says of one data line
ErrorOf(l) ==
    IF ~IdOf(l).some THEN "InvalidTableId"
    ELSE IF Len(PiecesOf(l, <<59>>)) < 2 THEN "NoTableName"
    ELSE IF Len(PiecesOf(l, <<59>>)) < 3 THEN "NoTableColumnNames"
    ELSE IF Len(PiecesOf(l, <<59>>)) < 4 THEN "NoTableColumnTypes"
    ELSE IF Len(DefinitionOf(l).columns) # Len(DefinitionOf(l).types)
    THEN "InconsistentNamesAndTypesLength"
    ELSE "Ok"

\* the line has the form id;name;c1,..,cn;t1,..,tn
HasForm(l) == Len(PiecesOf(l, <<59>>)) = 4 /\ ErrorOf(l) = "Ok"

\* the statement of C19 for the data lines of the text
LastDefinitions(ls) ==
    /\ defs.err = "Ok"
    /\ DOMAIN defs.map = {IdOf(ls[i]).v : i \in 1..Len(ls)}
    /\ \A i \in 1..Len(ls) :
            (\A j \in (i + 1)..Len(ls) : IdOf(ls[j]).v # IdOf(ls[i]).v)
                => defs.map[IdOf(ls[i]).v] = DefinitionOf(ls[i])

\* C19: parse ignores blank lines and lines that start with // after white
\* space; when every other line has the form id;name;c1,..,cn;t1,..,tn with
\* an id that parses as u16, it returns a map of one entry per id, holding the
\* name, columns and types of the last line of that id.
C19_ParseDefinitions ==
    (defs.err # "none" /\ \A i \in 1..Len(DataLines(contents)) : HasForm(DataLines(contents)[i]))
        => LastDefinitions(DataLines(contents))

\* three lines: a definition of id 7, a comment, another definition of id 7
C19_Witness ==
    /\ defs.err = "Ok"
    /\ Cardinality({i \in 1..Len(contents) : contents[i] = 10}) = 3
    /\ Len(DataLines(contents)) = 2
    /\ DOMAIN defs.map = {7}
    /\ defs.map[7].name = <<117>>

\* the statement of C20 for the data lines of the text
FirstError(ls) ==
    IF \A i \in 1..Len(ls) : ErrorOf(ls[i]) = "Ok" THEN defs.err = "Ok"
    ELSE /\ defs.err = ErrorOf(ls[Min({i \in 1..Len(ls) : ErrorOf(ls[i]) # "Ok"})])
         /\ defs.map = <<>>

\* C20: parse fails on the first malformed data line and returns no map:
\* InvalidTableId when the text before the first ';' is no u16, else
\* NoTableName, NoTableColumnNames, NoTableColumnTypes when the second, third
\* or fourth field is missing, else InconsistentNamesAndTypesLength when the
\* two lists differ in length.
C20_ParseErrors == defs.err # "none" => FirstError(DataLines(contents))

\* a valid line, then one that has no types: the first is not returned
C20_Witness ==
    /\ defs.err = "NoTableColumnTypes"
    /\ Len(DataLines(contents)) >= 2
    /\ ErrorOf(DataLines(contents)[1]) = "Ok"
    /\ defs.map = <<>>

\* C22: deserialize reports every failure as a returned Error and never
\* panics, for every stream, those of no column or of a first row offset
\* below 4 included: the subtraction end - 4 never underflows.
C22_NeverAborts == de.err # "panic" /\ de2.err # "panic"

\* C23: for every table of 1 to 65535 rows that add_row builds, serialize
\* captures as many (row id, offset) pairs as it reserved slots, so its
\* assertion holds and it never panics.
C23_JumpTableAssertion ==
    (ser # "none" /\ Len(TheTable.rows) >= 1) => ser # "panic"

\* C25: a table deserialize returns satisfies the row invariant: every row
\* has at least one cell and its first cell is I32.
C25_DeserializedRows ==
    de.err = "Ok" =>
        \A i \in 1..Len(TheRead.table.rows) :
            /\ Len(TheRead.table.rows[i]) > 0
            /\ TheRead.table.rows[i][1].k = "I32"

\* the rows after are the rows before, in place, with row after them
Appended(before, after, row) == after = before \o <<row>>

\* C26: a successful add_row(row) leaves the id and the rows held unchanged
\* and in place and puts row at the end, at the index of the previous row
\* count; a failed add_row leaves the id and the rows unchanged.
C26_AppendOnly ==
    [][\A row \in RowInputs :
         AddRow(row) =>
            /\ table'.id = table.id
            /\ res' = "Ok" => Appended(TheTable.rows, UnpackTable(table').rows, row)
            /\ res' # "Ok" => table' = table]_vars

\* two different rows accepted one after the other by an empty table
C26_Witness ==
    /\ calls = 2
    /\ res = "Ok"
    /\ Len(TheTable.rows) = 2
    /\ TheTable.rows[1] # TheTable.rows[2]

\* the 0-based indexes of the rows of the wrapped table whose id is row_id
RowsOfId(row_id) ==
    {i - 1 : i \in {j \in 1..Len(TheNamed.table.rows) :
                        TheNamed.table.rows[j][1].v = row_id}}

\* the greatest element of a set of numbers
Highest_of(S) == CHOOSE i \in S : \A j \in S : j <= i

\* C24: when several rows have the same id, an accessor by name called with
\* that id reads the last of them; the earlier ones stay in the wrapped
\* table at their positions.
C24_RepeatedIds ==
    (call.fn \in {"named.value", "named.vector", "named.map"}
        /\ Cardinality(RowsOfId(call.row_id)) > 1) =>
        /\ call.column_name \in DOMAIN named.column_to_index =>
                SameResult(out, Positional(Highest_of(RowsOfId(call.row_id)),
                                           named.column_to_index[call.column_name]))
        /\ TheNamed.table = TheTable

\* id 7 stands in rows 1 and 2; the text read by name is that of row 2
C24_Witness ==
    /\ call.fn = "named.value"
    /\ call.types = <<"String">>
    /\ call.row_id = 7
    /\ call.column_name = Name_map
    /\ RowsOfId(7) = {1, 2}
    /\ TheDef.columns = <<Name_id, Name_array, Name_map>>
    /\ out.v = Text_twice
    /\ TheTable.rows[2][3].v = Text_dup

\* the bytes Value::serialize wrote for val
WrittenBytes == SubSeq(Unpack(vbuf.buf), vbuf.start + 1, vbuf.end)

\* what Value::serialize does with a string of bytes s
StringWritten(s) ==
    /\ (vbuf.err # "none" /\ Len(s) <= 65535) =>
            /\ vbuf.err = "Ok"
            /\ WrittenBytes[1] = (IF \A i \in 1..Len(s) : s[i] <= 127 THEN 1 ELSE 0)
            /\ WrittenBytes[2] = Len(s) % 256
            /\ WrittenBytes[3] = Len(s) \div 256
            /\ SubSeq(WrittenBytes, 4, Len(WrittenBytes)) = s
    /\ (vbuf.err # "none" /\ Len(s) > 65535) => vbuf.err = "StringTooBig"

\* the cell is a string of more than 65535 bytes
TooBig(cell) == cell.k = "String" /\ Len(cell.v) > 65535

\* the rows of the table that hold such a cell
BigRows(rows) == {r \in 1..Len(rows) : \E c \in 1..Len(rows[r]) : TooBig(rows[r][c])}

\* no test of serialize fails before it reaches the first such cell: the
\* numbers of rows and of columns fit, and every row of index 0, 100, ... up
\* to the row of the cell is empty or starts with an i32
ReachesBigCell(rows) ==
    /\ Len(rows) <= 65535
    /\ Len(rows[1]) <= 255
    /\ \A r \in 1..Len(rows) :
            ((r - 1) % 100 = 0 /\ \A b \in BigRows(rows) : r <= b)
                => (rows[r] = <<>> \/ rows[r][1].k = "I32")

\* the table serialized holds a cell too big: serialize returned one of its
\* errors, and StringTooBig when it reached the cell
BigCellRefused(rows) ==
    /\ ser \in {"StringTooBig", "InvalidRowID", "TooManyColumns", "TooManyRows",
               "BookmarkOutOfBounds"}
    /\ ReachesBigCell(rows) => ser = "StringTooBig"

\* C27 as stated: Value::serialize of a string of at most 65535 bytes writes a
\* flag byte (1 when every byte is at most 0x7F, else 0), the length as u16
\* little-endian and the bytes; of a longer string it returns StringTooBig,
\* and Table::serialize of any table that holds such a cell returns
\* StringTooBig.
C27_AnyTable ==
    val.k = "String" =>
        /\ StringWritten(UnpackValue(val).v)
        /\ (ser # "none" /\ BigRows(TheTable.rows) # {}) => ser = "StringTooBig"

\* C27, amended: Value::serialize of a string of at most 65535 bytes writes
\* the flag byte, the length as u16 little-endian and the bytes, and of a
\* longer string returns StringTooBig; Table::serialize of a table that holds
\* such a cell never succeeds: it returns StringTooBig, unless a test that
\* comes before the cell fails first (TooManyRows, TooManyColumns,
\* InvalidRowID or BookmarkOutOfBounds), and then that error.
C27_StringLength ==
    val.k = "String" =>
        /\ StringWritten(UnpackValue(val).v)
        /\ (ser # "none" /\ BigRows(TheTable.rows) # {}) => BigCellRefused(TheTable.rows)

\* a string of 65536 bytes refused by Value::serialize and by
\* Table::serialize of a table add_row built with the string in its second row
C27_Witness ==
    /\ val.k = "String"
    /\ Len(UnpackValue(val).v) = U16_MAX + 1
    /\ vbuf.err = "StringTooBig"
    /\ Len(TheTable.rows) = 2
    /\ BigRows(TheTable.rows) = {2}
    /\ ser = "StringTooBig"

\* every cell of the table from_csv returned has the type name of its column
TypesKept ==
    \A r \in 1..Len(csv.table.rows) : \A c \in 1..Len(csv.table.rows[r]) :
        type_as_string(csv.table.rows[r][c]) = records[1][c]

\* from_csv returned the table to_csv wrote
RoundTrip ==
    /\ csv.err = "Ok"
    /\ csv.table.id = TheTable.id
    /\ Len(csv.table.rows) = Len(TheTable.rows)
    /\ \A r \in 1..Len(TheTable.rows) :
            /\ TypeVector(csv.table.rows[r]) = TypeVector(TheTable.rows[r])
            /\ csv.table.rows[r] = TheTable.rows[r]

\* C21: in the table from_csv returns, a cell of a column typed t is a Value
\* whose type name is t, for each of the 11 type names; and from_csv of what
\* to_csv wrote with the type row and without the names returns the table
\* that was written.
C21_FromCsv ==
    /\ csv.err = "Ok" => TypesKept
    /\ (csv.err # "none" /\ written.called /\ ~written.named
            /\ written.with_types /\ ~written.with_names)
            => RoundTrip

====
